---- MODULE Spec2Model ----
(***************************************************************************)
(* MiniDB: the row store (storage/engine.py), the B-tree index and its     *)
(* manager (indexing/btree.py) and the statement executor                  *)
(* (core/executor.py), modelled as state machines.                         *)
(*                                                                         *)
(*   Spec       one Database instance on one data directory, driven by     *)
(*              SQL statements on table t; the in-memory objects and the    *)
(*              files they write are separate parts of the state.          *)
(*   SpecDML    INSERT, UPDATE, DELETE and TRUNCATE on an existing table t,  *)
(*              with bookkeeping of what the statements reported.          *)
(*   SpecBTree  one stand-alone BTreeIndex of minimum degree BTreeOrder,   *)
(*              driven by insert and delete calls.                         *)
(*                                                                         *)
(* Python lists are sequences; a Python index i is position i + 1.         *)
(***************************************************************************)
EXTENDS Integers, Sequences, FiniteSets, TLC

\* ---------------------------------------------------------------- bounds
\* values of column id are 1 .. MaxId
MaxId == 2
\* values of column c are NULL and 1 .. MaxC
MaxC == 1
\* INSERT is enabled while next_row_id <= MaxRowId
MaxRowId == 2
\* keys of the stand-alone B-tree are 1 .. MaxKey
MaxKey == 5
\* row ids of the stand-alone B-tree are 1 .. MaxRid
MaxRid == 2
\* minimum degree of the stand-alone B-tree
BTreeOrder == 2
\* rows of one INSERT statement
MaxRows == 3
\* multi-row INSERT statements run while next_row_id is at most this
MaxNext == 4
\* threads that call TableStorage.insert
NumThreads == 2
\* keys of the stand-alone B-tree that grows to three levels are 1 .. MaxDeepKey
MaxDeepKey == 9
\* ... and the keys deleted from it are 1 .. MaxDeepDelete
MaxDeepDelete == 2
\* SELECT: join and sort keys are 1 .. MaxK or NULL
MaxK == 2
\* SELECT: rows of the left table a and of the right table b
MaxLeft == 2
MaxRight == 2
\* SELECT: LIMIT and OFFSET are 0 .. MaxLimit
MaxLimit == 2
MaxSize == 1
MaxLen == 2

\* ------------------------------------------------------------- constants
\* Python's None (SQL NULL); every real value is positive
None == 0
\* BTreeIndex.__init__(order = 50): the degree IndexManager always uses
DefaultOrder == 50

Ids == 1 .. MaxId
Cs == (1 .. MaxC) \cup {None}

\* ------------------------------------------------------ Python list helpers
SeqToSet(s) == { s[i] : i \in 1 .. Len(s) }

\* list.insert(i, x)
ListInsert(s, i, x) == SubSeq(s, 1, i) \o << x >> \o SubSeq(s, i + 1, Len(s))

\* list[i] = x
ListSet(s, i, x) == [ s EXCEPT ![i + 1] = x ]

\* list.remove(x): drops the first occurrence
RECURSIVE ListRemove(_, _)
ListRemove(s, x) ==
    IF s = << >> THEN << >>
    ELSE IF Head(s) = x THEN Tail(s)
    ELSE << Head(s) >> \o ListRemove(Tail(s), x)

\* dict with one more (or one overwritten) entry
DictSet(d, k, v) == [ x \in DOMAIN d \cup {k} |-> IF x = k THEN v ELSE d[x] ]

\* del d[k]
DictDel(d, k) == [ x \in DOMAIN d \ {k} |-> d[x] ]

EmptyDict == [ x \in {} |-> 0 ]

\* a local variable that holds the result of a call:
\* One({ e : x \in {v} }) is e with x standing for the value of v
One(S) == CHOOSE e \in S : TRUE

\* ------------------------------------------------------------ B-tree index
EmptyNode(is_leaf) ==
    [ keys |-> << >>, values |-> << >>, children |-> << >>, is_leaf |-> is_leaf ]

\* BTreeIndex.__init__ followed by _load when no index file exists
NewBTreeIndex(name, unique, order) ==
    [ name |-> name, unique |-> unique, order |-> order,
      root_id |-> 0, next_node_id |-> 1,
      nodes |-> [ n \in {0} |-> EmptyNode(TRUE) ] ]

compare_keys(k1, k2) ==
    IF k1 = None /\ k2 = None THEN 0
    ELSE IF k1 = None THEN -1
    ELSE IF k2 = None THEN 1
    ELSE IF k1 < k2 THEN -1
    ELSE IF k1 > k2 THEN 1
    ELSE 0

\* the loop "while i < len(keys) and compare(key, keys[i]) > 0: i += 1"
RECURSIVE ScanUp(_, _, _)
ScanUp(keys, key, i) ==
    IF i < Len(keys) /\ compare_keys(key, keys[i + 1]) > 0
    THEN ScanUp(keys, key, i + 1)
    ELSE i

\* a scan that stops where it starts
ScanNothingMutant(keys, key, i) == i

\* the loop "while i >= 0 and compare(key, keys[i]) < 0: i -= 1"
RECURSIVE ScanDown(_, _, _)
ScanDown(keys, key, i) ==
    IF i >= 0 /\ compare_keys(key, keys[i + 1]) < 0
    THEN ScanDown(keys, key, i - 1)
    ELSE i

\* a search that looks at one node and never descends
SearchOneNodeMutant(idx, node_id, key) ==
    LET node == idx.nodes[node_id]
        i == ScanUp(node.keys, key, 0)
    IN  IF i < Len(node.keys) /\ compare_keys(key, node.keys[i + 1]) = 0
        THEN node.values[i + 1]
        ELSE << >>

RECURSIVE search_node(_, _, _)
search_node(idx, node_id, key) ==
    LET node == idx.nodes[node_id]
        i == ScanUp(node.keys, key, 0)
    IN  IF i < Len(node.keys) /\ compare_keys(key, node.keys[i + 1]) = 0
        THEN node.values[i + 1]
        ELSE IF node.is_leaf THEN << >>
        ELSE search_node(idx, node.children[i + 1], key)

BTreeIndex_search(idx, key) == search_node(idx, idx.root_id, key)

\* the arguments min_key, max_key, include_min, include_max of range_search
Range(min_key, max_key, include_min, include_max) ==
    [ min_key |-> min_key, max_key |-> max_key,
      include_min |-> include_min, include_max |-> include_max ]

\* an in_range that takes both bounds as closed
InRangeClosedMutant(key, range) ==
    /\ range.min_key # None => compare_keys(key, range.min_key) >= 0
    /\ range.max_key # None => compare_keys(key, range.max_key) <= 0

\* "in_range" of _range_search: the key against the two bounds
in_range(key, range) ==
    /\ range.min_key # None =>
          IF range.include_min THEN compare_keys(key, range.min_key) >= 0
          ELSE compare_keys(key, range.min_key) > 0
    /\ range.max_key # None =>
          IF range.include_max THEN compare_keys(key, range.max_key) <= 0
          ELSE compare_keys(key, range.max_key) < 0

\* "if key > max_key, no need to continue": the return inside the loop
past_max(key, range) ==
    /\ range.max_key # None
    /\ \/ range.include_max /\ compare_keys(key, range.max_key) > 0
       \/ ~ range.include_max /\ compare_keys(key, range.max_key) >= 0

\* _range_search: range_search_keys is the loop over the keys of the node from
\* position i on, followed by the visit of the rightmost child; results is
\* the list built so far
RECURSIVE range_search_keys(_, _, _, _, _)
range_search_keys(idx, node_id, range, i, results) ==
    LET node == idx.nodes[node_id]
    IN  IF i < Len(node.keys)
        THEN LET key == node.keys[i + 1]
                 left == IF /\ ~ node.is_leaf /\ i < Len(node.children)
                            /\ \/ range.min_key = None
                               \/ compare_keys(key, range.min_key) >= 0
                         THEN range_search_keys(idx, node.children[i + 1], range, 0, results)
                         ELSE results
                 here == left \o IF in_range(key, range)
                                 THEN [ j \in 1 .. Len(node.values[i + 1]) |->
                                          << key, node.values[i + 1][j] >> ]
                                 ELSE << >>
             IN  IF past_max(key, range) THEN here
                 ELSE range_search_keys(idx, node_id, range, i + 1, here)
        ELSE IF /\ ~ node.is_leaf /\ Len(node.children) > Len(node.keys)
                /\ \/ range.max_key = None
                   \/ /\ Len(node.keys) > 0
                      /\ compare_keys(node.keys[Len(node.keys)], range.max_key) < 0
             THEN range_search_keys(idx, node.children[Len(node.children)], range, 0, results)
             ELSE results

BTreeIndex_range_search(idx, min_key, max_key, include_min, include_max) ==
    range_search_keys(idx, idx.root_id,
                      Range(min_key, max_key, include_min, include_max), 0, << >>)

\* _allocate_node: the new node gets id next_node_id
allocate_node(idx, is_leaf) ==
    [ idx EXCEPT !.nodes = DictSet(idx.nodes, idx.next_node_id, EmptyNode(is_leaf)),
                 !.next_node_id = idx.next_node_id + 1 ]

split_child(idx0, parent_id, child_index) ==
    LET t == idx0.order
        child_id == idx0.nodes[parent_id].children[child_index + 1]
        child == idx0.nodes[child_id]
        new_id == idx0.next_node_id
        idx == allocate_node(idx0, child.is_leaf)
        parent == idx.nodes[parent_id]
        new_node == [ keys |-> SubSeq(child.keys, t + 1, Len(child.keys)),
                      values |-> SubSeq(child.values, t + 1, Len(child.values)),
                      children |-> IF child.is_leaf THEN << >>
                                   ELSE SubSeq(child.children, t + 1, Len(child.children)),
                      is_leaf |-> child.is_leaf ]
        cut_keys == SubSeq(child.keys, 1, t)
        cut_values == SubSeq(child.values, 1, t)
        median_key == cut_keys[Len(cut_keys)]
        median_values == cut_values[Len(cut_values)]
        new_child == [ keys |-> SubSeq(cut_keys, 1, Len(cut_keys) - 1),
                       values |-> SubSeq(cut_values, 1, Len(cut_values) - 1),
                       children |-> IF child.is_leaf THEN child.children
                                    ELSE SubSeq(child.children, 1, t),
                       is_leaf |-> child.is_leaf ]
        new_parent == [ parent EXCEPT
                          !.children = ListInsert(parent.children, child_index + 1, new_id),
                          !.keys = ListInsert(parent.keys, child_index, median_key),
                          !.values = ListInsert(parent.values, child_index, median_values) ]
    IN  [ idx EXCEPT !.nodes = [ n \in DOMAIN idx.nodes |->
                                   IF n = parent_id THEN new_parent
                                   ELSE IF n = child_id THEN new_child
                                   ELSE IF n = new_id THEN new_node
                                   ELSE idx.nodes[n] ] ]

\* an existing key takes the row id whether or not the index is unique
AddRowIdUncheckedMutant(idx, node_id, i, row_id) ==
    LET node == idx.nodes[node_id]
    IN  IF row_id \notin SeqToSet(node.values[i + 1])
        THEN [ idx |-> [ idx EXCEPT !.nodes[node_id].values[i + 1] = Append(@, row_id) ],
               raised |-> FALSE ]
        ELSE [ idx |-> idx, raised |-> FALSE ]

\* the three places of _insert_non_full that meet an existing key:
\* raise on a unique index, else append the row id if it is not there yet
add_row_id(idx, node_id, i, row_id) ==
    LET node == idx.nodes[node_id]
    IN  IF idx.unique /\ row_id \notin SeqToSet(node.values[i + 1])
        THEN [ idx |-> idx, raised |-> TRUE ]
        ELSE IF row_id \notin SeqToSet(node.values[i + 1])
        THEN [ idx |-> [ idx EXCEPT !.nodes[node_id].values[i + 1] = Append(@, row_id) ],
               raised |-> FALSE ]
        ELSE [ idx |-> idx, raised |-> FALSE ]

RECURSIVE insert_non_full(_, _, _, _)
insert_non_full(idx, node_id, key, row_id) ==
    LET node == idx.nodes[node_id]
        i == ScanDown(node.keys, key, Len(node.keys) - 1)
    IN  IF node.is_leaf
        THEN IF i >= 0 /\ compare_keys(key, node.keys[i + 1]) = 0
             THEN add_row_id(idx, node_id, i, row_id)
             ELSE [ idx |-> [ idx EXCEPT
                                !.nodes[node_id].keys = ListInsert(@, i + 1, key),
                                !.nodes[node_id].values = ListInsert(@, i + 1, << row_id >>) ],
                    raised |-> FALSE ]
        ELSE IF i >= 0 /\ compare_keys(key, node.keys[i + 1]) = 0
             THEN add_row_id(idx, node_id, i, row_id)
             ELSE LET j == i + 1
                      child == idx.nodes[node.children[j + 1]]
                  IN  IF Len(child.keys) = 2 * idx.order - 1
                      THEN One({ LET node2 == idx2.nodes[node_id]
                                 IN  IF compare_keys(key, node2.keys[j + 1]) > 0
                                     THEN insert_non_full(idx2, node2.children[j + 2], key, row_id)
                                     ELSE IF compare_keys(key, node2.keys[j + 1]) = 0
                                     THEN add_row_id(idx2, node_id, j, row_id)
                                     ELSE insert_non_full(idx2, node2.children[j + 1], key, row_id)
                                 : idx2 \in { split_child(idx, node_id, j) } })
                      ELSE insert_non_full(idx, node.children[j + 1], key, row_id)

\* BTreeIndex.insert without the final _save: the tree after the call (splits
\* done before a raise stay in memory) and whether ValueError was raised
BTreeIndex_insert(idx, key, row_id) ==
    LET root == idx.nodes[idx.root_id]
    IN  IF Len(root.keys) = 2 * idx.order - 1
        THEN LET new_id == idx.next_node_id
                 idx1 == allocate_node(idx, FALSE)
                 idx2 == [ idx1 EXCEPT !.nodes[new_id].children = << idx.root_id >>,
                                       !.root_id = new_id ]
                 idx3 == split_child(idx2, new_id, 0)
             IN  insert_non_full(idx3, new_id, key, row_id)
        ELSE insert_non_full(idx, idx.root_id, key, row_id)

RECURSIVE delete_node(_, _, _, _)
delete_node(idx, node_id, key, row_id) ==
    LET node == idx.nodes[node_id]
        i == ScanUp(node.keys, key, 0)
    IN  IF i < Len(node.keys) /\ compare_keys(key, node.keys[i + 1]) = 0
        THEN IF row_id \in SeqToSet(node.values[i + 1])
             THEN [ idx |-> [ idx EXCEPT !.nodes[node_id].values[i + 1] = ListRemove(@, row_id) ],
                    result |-> TRUE ]
             ELSE [ idx |-> idx, result |-> FALSE ]
        ELSE IF node.is_leaf THEN [ idx |-> idx, result |-> FALSE ]
        ELSE delete_node(idx, node.children[i + 1], key, row_id)

\* BTreeIndex.delete without the final _save
BTreeIndex_delete(idx, key, row_id) == delete_node(idx, idx.root_id, key, row_id)

\* ---- what a tree holds, read off the node map (not through search)
\* the positions <<node id, i>> of the tree that carry key
KeySlots(idx, key) ==
    { s \in UNION { { << n, i >> : i \in 1 .. Len(idx.nodes[n].keys) } : n \in DOMAIN idx.nodes } :
        idx.nodes[s[1]].keys[s[2]] = key }

\* the row ids held under key
KeyRowIds(idx, key) ==
    UNION { SeqToSet(idx.nodes[s[1]].values[s[2]]) : s \in KeySlots(idx, key) }

\* the keys present in the tree, with or without row ids
TreeKeys(idx) == UNION { SeqToSet(idx.nodes[n].keys) : n \in DOMAIN idx.nodes }

\* the (key, row id) pairs held by the tree
TreePairs(idx) == UNION { { << k, r >> : r \in KeyRowIds(idx, k) } : k \in TreeKeys(idx) }

RECURSIVE Depth(_, _)
Depth(idx, node_id) ==
    IF idx.nodes[node_id].is_leaf THEN 1
    ELSE 1 + Depth(idx, idx.nodes[node_id].children[1])

\* ------------------------------------------------------------ identifiers
\* str.lower() on the identifiers statements use
Lower(s) ==
    CASE s = "T" -> "t"
      [] s = "ID" -> "id"
      [] s = "C" -> "c"
      [] s = "N" -> "n"
      [] s = "IF" -> "if"
      [] OTHER -> s

\* dict.get(key): None when the key is missing
DictGet(d, k) == IF k \in DOMAIN d THEN d[k] ELSE None

\* ------------------------------------------------------------------ schema
\* ColumnType: a data type and the size of VARCHAR(size); the size is None
\* when the type has none
ColumnType(dtype, size) == [ dtype |-> dtype, size |-> size ]

\* Column; __post_init__ makes a primary key NOT NULL and UNIQUE
Column(name, primary_key, unique, not_null, default) ==
    [ name |-> name, col_type |-> ColumnType("INTEGER", None), primary_key |-> primary_key,
      unique |-> (unique \/ primary_key), not_null |-> (not_null \/ primary_key),
      default |-> default ]

\* TableSchema.primary_key as add_column leaves it (None without a primary key)
primary_key(schema) ==
    IF \E i \in 1 .. Len(schema.columns) : schema.columns[i].primary_key
    THEN schema.columns[CHOOSE i \in 1 .. Len(schema.columns) : schema.columns[i].primary_key].name
    ELSE "None"

\* TableSchema.unique_columns
unique_columns(schema) ==
    { schema.columns[i].name : i \in { j \in 1 .. Len(schema.columns) : schema.columns[j].unique } }

get_column_names(schema) == [ i \in 1 .. Len(schema.columns) |-> schema.columns[i].name ]

\* TableSchema.get_column(name) is not None
has_column(schema, name) ==
    \E i \in 1 .. Len(schema.columns) : Lower(schema.columns[i].name) = Lower(name)

\* a string value is held as a positive number: Text(n) is the string of n
\* letters, len its length
Text(n) == n + 1
len(str_val) == str_val - 1

\* TypeValidator.validate_and_convert: int(value) on an INTEGER column; on a
\* VARCHAR column "if col_type.size and len(str_val) > col_type.size: raise",
\* where a size of None or 0 is false
validate_and_convert(value, col_type) ==
    IF col_type.dtype = "VARCHAR"
    THEN [ raised |-> (col_type.size # None /\ col_type.size # 0 /\ len(value) > col_type.size),
           value |-> value ]
    ELSE [ raised |-> FALSE, value |-> value ]

\* the value validate_row reads for a column: that of the row's key equal to
\* the column name up to case, None when there is none
RowValueNoCase(row, name) ==
    IF \E k \in DOMAIN row : Lower(k) = Lower(name)
    THEN row[CHOOSE k \in DOMAIN row : Lower(k) = Lower(name)]
    ELSE None

\* what validate_row makes of one column
validate_column(col, row) ==
    LET given == RowValueNoCase(row, col.name)
        value == IF given = None /\ col.default # None THEN col.default ELSE given
    IN  IF value = None
        THEN [ raised |-> col.not_null, value |-> None ]
        ELSE validate_and_convert(value, col.col_type)

\* TableSchema.validate_row
validate_row(schema, row) ==
    LET cols == schema.columns
    IN  [ raised |-> \E i \in 1 .. Len(cols) : validate_column(cols[i], row).raised,
          row |-> [ n \in { cols[i].name : i \in 1 .. Len(cols) } |->
                      validate_column(cols[CHOOSE i \in 1 .. Len(cols) : cols[i].name = n], row).value ] ]

\* ------------------------------------------------------------ table storage
\* TableStorage after __post_init__ when no table file exists
NewTableStorage == [ rows |-> EmptyDict, next_row_id |-> 1 ]

\* the row id insert assigns, taken from the greatest stored id
NextIdFromRowsMutant(storage) ==
    IF DOMAIN storage.rows = {} THEN 1
    ELSE 1 + CHOOSE m \in DOMAIN storage.rows : \A r \in DOMAIN storage.rows : r <= m

\* the row id insert assigns
assign_row_id(storage) == storage.next_row_id

\* a uniqueness scan that accepts every row
CheckNothingMutant(schema, rows, row, exclude_id) == FALSE

\* _check_unique_constraints raises; exclude_id = None excludes nothing
check_unique_constraints(schema, rows, row, exclude_id) ==
    \E col_name \in unique_columns(schema) :
        /\ DictGet(row, col_name) # None
        /\ \E row_id \in DOMAIN rows :
              /\ ~ (exclude_id # None /\ row_id = exclude_id)
              /\ DictGet(rows[row_id], col_name) = DictGet(row, col_name)

\* TableStorage.insert without _save
TableStorage_insert(storage, schema, row) ==
    LET row_id == assign_row_id(storage)
    IN  One({ IF v.raised \/ check_unique_constraints(schema, storage.rows, v.row, None)
              THEN [ storage |-> storage, raised |-> TRUE, row_id |-> None ]
              ELSE [ storage |-> [ rows |-> DictSet(storage.rows, row_id, v.row),
                                   next_row_id |-> storage.next_row_id + 1 ],
                     raised |-> FALSE, row_id |-> row_id ]
              : v \in { validate_row(schema, row) } })

\* the merge of update: each update lands on the column it names up to case
MergeUpdates(schema, current_row, updates) ==
    [ n \in DOMAIN current_row |->
        IF \E k \in DOMAIN updates : Lower(k) = Lower(n) /\ has_column(schema, n)
        THEN updates[CHOOSE k \in DOMAIN updates : Lower(k) = Lower(n)]
        ELSE current_row[n] ]

\* TableStorage.update without _save; found is the return value
TableStorage_update(storage, schema, row_id, updates) ==
    IF row_id \notin DOMAIN storage.rows
    THEN [ storage |-> storage, raised |-> FALSE, found |-> FALSE ]
    ELSE One({ IF v.raised \/ check_unique_constraints(schema, storage.rows, v.row, row_id)
               THEN [ storage |-> storage, raised |-> TRUE, found |-> TRUE ]
               ELSE [ storage |-> [ storage EXCEPT !.rows[row_id] = v.row ],
                      raised |-> FALSE, found |-> TRUE ]
               : v \in { validate_row(schema, MergeUpdates(schema, storage.rows[row_id],
                                                           updates)) } })

\* TableStorage.delete without _save
TableStorage_delete(storage, row_id) ==
    IF row_id \notin DOMAIN storage.rows THEN storage
    ELSE [ storage EXCEPT !.rows = DictDel(storage.rows, row_id) ]

\* TableStorage.scan: the row ids in iteration order (rows enter the dict in
\* increasing id order and keep their place, in memory and in the file)
RECURSIVE SortedIds(_)
SortedIds(S) ==
    IF S = {} THEN << >>
    ELSE LET m == CHOOSE x \in S : \A y \in S : x <= y
         IN  << m >> \o SortedIds(S \ {m})

scan(storage) == SortedIds(DOMAIN storage.rows)

\* ---------------------------------------------------------------- the world
\* One Database instance and its data directory:
\*   catalog       Catalog.tables             table -> schema
\*   tables        StorageEngine.tables       table -> TableStorage
\*   indexes       IndexManager.indexes       table -> list of BTreeIndex in
\*                                            dict order, each with its column
\*   catalog_file  _catalog.json              table -> schema
\*   table_files   <table>.json               table -> rows and next_row_id
\*   index_meta    _indexes.json              table -> list of (column, name, unique)
\*   index_files   _idx_<table>_<column>.json <<table, column>> -> tree

\* position of the index on column in an index list, 0 when there is none
IndexPos(list, column) ==
    IF \E i \in 1 .. Len(list) : list[i].column = column
    THEN CHOOSE i \in 1 .. Len(list) : list[i].column = column
    ELSE 0

\* IndexManager.get_table_indexes
get_table_indexes(w, table) ==
    IF Lower(table) \in DOMAIN w.indexes THEN w.indexes[Lower(table)] ELSE << >>

\* BTreeIndex._save: what the index file holds
IndexFileOf(idx) ==
    [ root_id |-> idx.root_id, next_node_id |-> idx.next_node_id, nodes |-> idx.nodes ]

\* IndexManager._save_index_meta
save_index_meta(w) ==
    [ w EXCEPT !.index_meta =
        [ t \in DOMAIN w.indexes |->
            [ i \in 1 .. Len(w.indexes[t]) |->
                [ column |-> w.indexes[t][i].column, name |-> w.indexes[t][i].name,
                  unique |-> w.indexes[t][i].unique ] ] ] ]

\* BTreeIndex.__init__ and _load: the tree of the index file when there is one
LoadBTreeIndex(w, name, table, column, unique) ==
    LET fresh == NewBTreeIndex(name, unique, DefaultOrder)
        f == << table, column >>
        loaded == IF f \in DOMAIN w.index_files
                  THEN [ fresh EXCEPT !.root_id = w.index_files[f].root_id,
                                      !.next_node_id = w.index_files[f].next_node_id,
                                      !.nodes = w.index_files[f].nodes ]
                  ELSE fresh
    IN  [ column |-> column ] @@ loaded

\* index.insert(key, row_id) on the index at position i of table's list,
\* _save included (skipped when the insert raises)
index_insert(w, table, i, key, row_id) ==
    LET idx == w.indexes[table][i]
    IN  One({ IF r.raised THEN [ w |-> [ w EXCEPT !.indexes[table][i] = r.idx ], raised |-> TRUE ]
              ELSE [ w |-> [ w EXCEPT !.indexes[table][i] = r.idx,
                                      !.index_files = DictSet(w.index_files, << table, idx.column >>,
                                                              IndexFileOf(r.idx)) ],
                     raised |-> FALSE ]
              : r \in { BTreeIndex_insert(idx, key, row_id) } })

\* index.delete(key, row_id), _save included
index_delete(w, table, i, key, row_id) ==
    LET idx == w.indexes[table][i]
    IN  One({ [ w EXCEPT !.indexes[table][i] = r.idx,
                         !.index_files = DictSet(w.index_files, << table, idx.column >>,
                                                 IndexFileOf(r.idx)) ]
              : r \in { BTreeIndex_delete(idx, key, row_id) } })

\* BTreeIndex.drop: remove the index file
index_drop(w, table, column) ==
    [ w EXCEPT !.index_files = DictDel(w.index_files, << table, column >>) ]

\* IndexManager.create_index
IndexManager_create_index(w, name, table_name, column_name, unique) ==
    LET table == Lower(table_name)
        column == Lower(column_name)
        list == get_table_indexes(w, table)
    IN  IF IndexPos(list, column) # 0
        THEN [ w |-> w, raised |-> TRUE ]
        ELSE LET idx == LoadBTreeIndex(w, name, table, column, unique)
                 w1 == [ w EXCEPT !.indexes = DictSet(w.indexes, table, Append(list, idx)) ]
             IN  [ w |-> save_index_meta(w1), raised |-> FALSE ]

\* list without its element at position i
SeqDel(s, i) == SubSeq(s, 1, i - 1) \o SubSeq(s, i + 1, Len(s))

\* IndexManager.drop_index
IndexManager_drop_index(w, table_name, column_name) ==
    LET table == Lower(table_name)
        column == Lower(column_name)
        list == get_table_indexes(w, table)
        i == IndexPos(list, column)
    IN  IF table \in DOMAIN w.indexes /\ i # 0
        THEN save_index_meta([ index_drop(w, table, column) EXCEPT !.indexes[table] = SeqDel(list, i) ])
        ELSE w

\* drop_table_indexes without index.drop(): the table's indexes leave the
\* manager and the metadata but their files stay in the data directory
DropTableIndexesKeepFilesMutant(w, table_name) ==
    LET table == Lower(table_name)
    IN  IF table \in DOMAIN w.indexes
        THEN save_index_meta([ w EXCEPT !.indexes = DictDel(w.indexes, table) ])
        ELSE w

\* IndexManager.drop_table_indexes
IndexManager_drop_table_indexes(w, table_name) ==
    LET table == Lower(table_name)
    IN  IF table \in DOMAIN w.indexes
        THEN save_index_meta(
                 [ w EXCEPT !.index_files =
                               [ f \in { g \in DOMAIN w.index_files :
                                           ~ \E i \in 1 .. Len(w.indexes[table]) :
                                               g = << table, w.indexes[table][i].column >> }
                                 |-> w.index_files[f] ],
                            !.indexes = DictDel(w.indexes, table) ])
        ELSE w

\* TableStorage._save of table (the file is named after schema.name)
save_table(w, table) ==
    [ w EXCEPT !.table_files = DictSet(w.table_files, w.catalog[table].name, w.tables[table]) ]

\* StorageEngine._save_catalog
save_catalog(w) == [ w EXCEPT !.catalog_file = w.catalog ]

\* StorageEngine.create_table: the new TableStorage loads a table file left
\* on disk, if any
StorageEngine_create_table(w, schema) ==
    LET table == Lower(schema.name)
        storage == IF schema.name \in DOMAIN w.table_files THEN w.table_files[schema.name]
                   ELSE NewTableStorage
    IN  save_catalog([ w EXCEPT !.catalog = DictSet(w.catalog, table, schema),
                                !.tables = DictSet(w.tables, table, storage) ])

\* StorageEngine.drop_table (the caller has checked that the table exists)
StorageEngine_drop_table(w, name) ==
    LET table == Lower(name)
        w1 == IF table \in DOMAIN w.tables
              THEN [ w EXCEPT !.table_files = DictDel(w.table_files, w.catalog[table].name),
                              !.tables = DictDel(w.tables, table) ]
              ELSE w
    IN  save_catalog([ w1 EXCEPT !.catalog = DictDel(w1.catalog, table) ])

table_exists(w, name) == Lower(name) \in DOMAIN w.catalog

\* ---------------------------------------------------------------- executor
\* Statements are records: table, and per kind
\*   INSERT        columns (<< >> when no column list), values (list of value lists)
\*   UPDATE        assignments (list of <<column, expression>>), where
\*   DELETE        where
\*   CREATE TABLE  columns (list of Column), if_not_exists
\*   DROP TABLE    if_exists
\*   CREATE INDEX  name, column, unique
\*   DROP INDEX    name
\* An expression is a literal or a column reference; a WHERE is absent
\* (kind "none") or an equality of two expressions.  Every execute_* gives
\* the world after the statement, whether it raised, and affected_rows.
Lit(v) == [ kind |-> "lit", value |-> v, column |-> "" ]
Col(c) == [ kind |-> "col", value |-> None, column |-> c ]
NoWhere == [ kind |-> "none", left |-> Lit(None), right |-> Lit(None) ]
WhereEq(l, r) == [ kind |-> "eq", left |-> l, right |-> r ]

\* ExpressionEvaluator.evaluate on a flat row
evaluate(expr, row) ==
    IF expr.kind = "lit" THEN expr.value ELSE RowValueNoCase(row, expr.column)

\* "not stmt.where or evaluator.evaluate(stmt.where)" for the '=' operator
where_matches(where, row) ==
    where.kind = "none" \/ evaluate(where.left, row) = evaluate(where.right, row)

\* dict(zip(names, values)): a name given twice keeps its last value
ZipDict(names, values) ==
    [ n \in SeqToSet(names) |->
        values[CHOOSE i \in 1 .. Len(names) :
                  names[i] = n /\ \A j \in 1 .. Len(names) : names[j] = n => j <= i] ]

\* executor.py 601-605: the inserted row goes into the table's indexes in
\* dict order, from position i on; the value is read from the row as built
\* from the statement, under the index's lower-case column name
RECURSIVE insert_into_indexes(_, _, _, _, _)
insert_into_indexes(w, table, row, row_id, i) ==
    IF i > Len(get_table_indexes(w, table)) THEN [ w |-> w, raised |-> FALSE ]
    ELSE LET value == DictGet(row, w.indexes[table][i].column)
         IN  IF value = None THEN insert_into_indexes(w, table, row, row_id, i + 1)
             ELSE One({ IF r.raised THEN r
                        ELSE insert_into_indexes(r.w, table, row, row_id, i + 1)
                        : r \in { index_insert(w, table, i, value, row_id) } })

\* the loop of _execute_insert from value list k on; row_ids are the ids
\* table_storage.insert has returned so far
RECURSIVE insert_rows(_, _, _, _)
insert_rows(w, stmt, k, row_ids) ==
    IF k > Len(stmt.values)
    THEN [ w |-> w, raised |-> FALSE, affected |-> Len(row_ids), row_ids |-> row_ids ]
    ELSE LET table == Lower(stmt.table)
             schema == w.catalog[table]
             names == IF stmt.columns # << >> THEN stmt.columns ELSE get_column_names(schema)
             row == ZipDict(names, stmt.values[k])
         IN  IF Len(names) # Len(stmt.values[k])
             THEN [ w |-> w, raised |-> TRUE, affected |-> 0, row_ids |-> row_ids ]
             ELSE One({
               IF r.raised
               THEN [ w |-> w, raised |-> TRUE, affected |-> 0, row_ids |-> row_ids ]
               ELSE One({
                 IF x.raised
                 THEN [ w |-> x.w, raised |-> TRUE, affected |-> 0,
                        row_ids |-> Append(row_ids, r.row_id) ]
                 ELSE insert_rows(x.w, stmt, k + 1, Append(row_ids, r.row_id))
                 : x \in { insert_into_indexes(
                               save_table([ w EXCEPT !.tables[table] = r.storage ], table),
                               table, row, r.row_id, 1) } })
               : r \in { TableStorage_insert(w.tables[table], schema, row) } })

\* _execute_insert
execute_insert(w, stmt) ==
    IF Lower(stmt.table) \notin DOMAIN w.tables
    THEN [ w |-> w, raised |-> TRUE, affected |-> 0, row_ids |-> << >> ]
    ELSE insert_rows(w, stmt, 1, << >>)

\* a WHERE that selects every row
FilterNothingMutant(ids, rows, where) == ids

\* the rows a statement's WHERE selects, in scan order
RECURSIVE FilterIds(_, _, _)
FilterIds(ids, rows, where) ==
    IF ids = << >> THEN << >>
    ELSE (IF where_matches(where, rows[Head(ids)]) THEN << Head(ids) >> ELSE << >>)
         \o FilterIds(Tail(ids), rows, where)

\* an updates dict whose later right-hand sides see the first assignment
PropagatingUpdatesMutant(stmt, old_row) ==
    LET first == evaluate(stmt.assignments[1][2], old_row)
        seen == [ old_row EXCEPT ![stmt.assignments[1][1]] = first ]
        cols == [ i \in 1 .. Len(stmt.assignments) |-> stmt.assignments[i][1] ]
        vals == [ i \in 1 .. Len(stmt.assignments) |->
                    IF i = 1 THEN first ELSE evaluate(stmt.assignments[i][2], seen) ]
    IN  ZipDict(cols, vals)

\* the updates dict of one row: every right-hand side evaluated on old_row
updates_of(stmt, old_row) ==
    LET cols == [ i \in 1 .. Len(stmt.assignments) |-> stmt.assignments[i][1] ]
        vals == [ i \in 1 .. Len(stmt.assignments) |-> evaluate(stmt.assignments[i][2], old_row) ]
    IN  ZipDict(cols, vals)

\* executor.py 645-652: for the indexes from position i on whose column is
\* assigned, delete the old pair and insert the new one
RECURSIVE update_indexes(_, _, _, _, _, _)
update_indexes(w, table, old_row, updates, row_id, i) ==
    IF i > Len(get_table_indexes(w, table)) THEN [ w |-> w, raised |-> FALSE ]
    ELSE LET col_name == w.indexes[table][i].column
             old_value == DictGet(old_row, col_name)
             new_value == DictGet(updates, col_name)
         IN  IF \E c \in DOMAIN updates : Lower(c) = Lower(col_name)
             THEN One({
                    One({ IF r.raised THEN r
                          ELSE update_indexes(r.w, table, old_row, updates, row_id, i + 1)
                          : r \in { IF new_value # None
                                    THEN index_insert(w1, table, i, new_value, row_id)
                                    ELSE [ w |-> w1, raised |-> FALSE ] } })
                    : w1 \in { IF old_value # None
                               THEN index_delete(w, table, i, old_value, row_id)
                               ELSE w } })
             ELSE update_indexes(w, table, old_row, updates, row_id, i + 1)

\* the second loop of _execute_update over rows_to_update = (ids, old_rows)
RECURSIVE update_rows(_, _, _, _, _, _)
update_rows(w, stmt, ids, old_rows, k, updated) ==
    IF k > Len(ids) THEN [ w |-> w, raised |-> FALSE, affected |-> updated ]
    ELSE LET table == Lower(stmt.table)
             row_id == ids[k]
             updates == updates_of(stmt, old_rows[row_id])
         IN  One({
               IF x.raised
               THEN [ w |-> x.w, raised |-> TRUE, affected |-> 0 ]
               ELSE One({
                 IF r.raised
                 THEN [ w |-> x.w, raised |-> TRUE, affected |-> 0 ]
                 ELSE update_rows(save_table([ x.w EXCEPT !.tables[table] = r.storage ], table),
                                  stmt, ids, old_rows, k + 1, updated + 1)
                 : r \in { TableStorage_update(x.w.tables[table], x.w.catalog[table],
                                               row_id, updates) } })
               : x \in { update_indexes(w, table, old_rows[row_id], updates, row_id, 1) } })

\* _execute_update
execute_update(w, stmt) ==
    LET table == Lower(stmt.table)
    IN  IF table \notin DOMAIN w.tables
        THEN [ w |-> w, raised |-> TRUE, affected |-> 0 ]
        ELSE update_rows(w, stmt, FilterIds(scan(w.tables[table]), w.tables[table].rows, stmt.where),
                         w.tables[table].rows, 1, 0)

\* executor.py 685-688: delete the row's pair from the indexes from position i on
RECURSIVE delete_from_indexes(_, _, _, _, _)
delete_from_indexes(w, table, row, row_id, i) ==
    IF i > Len(get_table_indexes(w, table)) THEN w
    ELSE LET value == DictGet(row, w.indexes[table][i].column)
         IN  delete_from_indexes(
                 IF value # None THEN index_delete(w, table, i, value, row_id) ELSE w,
                 table, row, row_id, i + 1)

\* the second loop of _execute_delete over rows_to_delete = (ids, rows)
RECURSIVE delete_rows(_, _, _, _, _)
delete_rows(w, table, ids, rows, k) ==
    IF k > Len(ids) THEN w
    ELSE One({ delete_rows(
                   IF ids[k] \in DOMAIN w1.tables[table].rows
                   THEN save_table([ w1 EXCEPT !.tables[table] = TableStorage_delete(@, ids[k]) ],
                                   table)
                   ELSE w1,
                   table, ids, rows, k + 1)
               : w1 \in { delete_from_indexes(w, table, rows[ids[k]], ids[k], 1) } })

\* _execute_delete
execute_delete(w, stmt) ==
    LET table == Lower(stmt.table)
    IN  IF table \notin DOMAIN w.tables
        THEN [ w |-> w, raised |-> TRUE, affected |-> 0 ]
        ELSE LET ids == FilterIds(scan(w.tables[table]), w.tables[table].rows, stmt.where)
             IN  [ w |-> delete_rows(w, table, ids, w.tables[table].rows, 1),
                   raised |-> FALSE, affected |-> Len(ids) ]

\* executor.py 733-740: a unique index for every UNIQUE column that is not
\* the primary key, from column i on
RECURSIVE create_unique_indexes(_, _, _, _)
create_unique_indexes(w, table, schema, i) ==
    IF i > Len(schema.columns) THEN [ w |-> w, raised |-> FALSE ]
    ELSE LET col == schema.columns[i]
         IN  IF col.unique /\ ~ col.primary_key
             THEN One({ IF r.raised THEN r ELSE create_unique_indexes(r.w, table, schema, i + 1)
                        : r \in { IndexManager_create_index(w, "unique", table, col.name, TRUE) } })
             ELSE create_unique_indexes(w, table, schema, i + 1)

\* _execute_create_table; stmt.columns are well formed (distinct names, at
\* most one primary key), so add_column does not raise
execute_create_table(w, stmt) ==
    IF table_exists(w, stmt.table)
    THEN [ w |-> w, raised |-> ~ stmt.if_not_exists, affected |-> 0 ]
    ELSE LET schema == [ name |-> stmt.table, columns |-> stmt.columns ]
         IN  One({
               One({ IF pk.raised THEN [ w |-> pk.w, raised |-> TRUE, affected |-> 0 ]
                     ELSE One({ [ w |-> u.w, raised |-> u.raised, affected |-> 0 ]
                                : u \in { create_unique_indexes(pk.w, stmt.table, schema, 1) } })
                     : pk \in { IF primary_key(schema) # "None"
                                THEN IndexManager_create_index(w1, "pk", stmt.table,
                                                               primary_key(schema), TRUE)
                                ELSE [ w |-> w1, raised |-> FALSE ] } })
               : w1 \in { StorageEngine_create_table(w, schema) } })

\* _execute_drop_table
execute_drop_table(w, stmt) ==
    IF ~ table_exists(w, stmt.table)
    THEN [ w |-> w, raised |-> ~ stmt.if_exists, affected |-> 0 ]
    ELSE [ w |-> StorageEngine_drop_table(IndexManager_drop_table_indexes(w, stmt.table), stmt.table),
           raised |-> FALSE, affected |-> 0 ]

\* executor.py 777-781: the rows ids[k..] go into the new index (the last of
\* the table's list); the value is read under the column name as written
RECURSIVE build_index(_, _, _, _, _)
build_index(w, table, column, ids, k) ==
    IF k > Len(ids) THEN [ w |-> w, raised |-> FALSE ]
    ELSE LET value == DictGet(w.tables[table].rows[ids[k]], column)
         IN  IF value = None THEN build_index(w, table, column, ids, k + 1)
             ELSE One({ IF r.raised THEN r
                        ELSE build_index(r.w, table, column, ids, k + 1)
                        : r \in { index_insert(w, table, Len(w.indexes[table]), value, ids[k]) } })

\* _execute_create_index
execute_create_index(w, stmt) ==
    IF ~ table_exists(w, stmt.table) \/ ~ has_column(w.catalog[Lower(stmt.table)], stmt.column)
    THEN [ w |-> w, raised |-> TRUE, affected |-> 0 ]
    ELSE One({
           IF c.raised THEN [ w |-> c.w, raised |-> TRUE, affected |-> 0 ]
           ELSE One({ [ w |-> b.w, raised |-> b.raised, affected |-> 0 ]
                      : b \in { build_index(c.w, Lower(stmt.table), stmt.column,
                                            scan(w.tables[Lower(stmt.table)]), 1) } })
           : c \in { IndexManager_create_index(w, stmt.name, stmt.table, stmt.column,
                                               stmt.unique) } })

\* _execute_drop_index: the index NAME is handed on as the column name
execute_drop_index(w, stmt) ==
    [ w |-> IndexManager_drop_index(w, stmt.table, stmt.name), raised |-> FALSE, affected |-> 0 ]

\* executor.py 825-826: index.drop() for every index of the table
RECURSIVE drop_index_files(_, _, _)
drop_index_files(w, table, i) ==
    IF i > Len(get_table_indexes(w, table)) THEN w
    ELSE drop_index_files(index_drop(w, table, w.indexes[table][i].column), table, i + 1)

\* TableStorage.truncate, _save included
TableStorage_truncate(w, table) ==
    save_table([ w EXCEPT !.tables[table] = [ rows |-> EmptyDict, next_row_id |-> 1 ] ], table)

\* executor.py 832-837: create_index for every column of the (still
\* registered) indexes, from position i on
RECURSIVE recreate_indexes(_, _, _, _)
recreate_indexes(w, table, columns, i) ==
    IF i > Len(columns) THEN [ w |-> w, raised |-> FALSE ]
    ELSE One({ IF r.raised THEN r ELSE recreate_indexes(r.w, table, columns, i + 1)
               : r \in { IndexManager_create_index(w, "idx", table, columns[i], FALSE) } })

\* _execute_truncate_table
execute_truncate_table(w, stmt) ==
    LET table == Lower(stmt.table)
    IN  IF table \notin DOMAIN w.tables
        THEN [ w |-> w, raised |-> TRUE, affected |-> 0 ]
        ELSE LET table_indexes == get_table_indexes(w, table)
                 columns == [ i \in 1 .. Len(table_indexes) |-> table_indexes[i].column ]
             IN  One({ [ w |-> r.w, raised |-> r.raised, affected |-> 0 ]
                       : r \in { recreate_indexes(
                                     TableStorage_truncate(drop_index_files(w, table, 1), table),
                                     table, columns, 1) } })

\* Database.__init__ on the data directory: StorageEngine._load_catalog and
\* IndexManager._load_indexes rebuild every object from the files
Database_open(w) ==
    [ w EXCEPT
        !.catalog = w.catalog_file,
        !.tables = [ t \in DOMAIN w.catalog_file |->
                       IF w.catalog_file[t].name \in DOMAIN w.table_files
                       THEN w.table_files[w.catalog_file[t].name] ELSE NewTableStorage ],
        !.indexes = [ t \in DOMAIN w.index_meta |->
                        [ i \in 1 .. Len(w.index_meta[t]) |->
                            LoadBTreeIndex(w, w.index_meta[t][i].name, t,
                                           w.index_meta[t][i].column, w.index_meta[t][i].unique) ] ] ]

\* Database.count(table) and SELECT COUNT(*) FROM table
count(w, table) == Cardinality(DOMAIN w.tables[Lower(table)].rows)

\* ------------------------------------------------------------------ SELECT
\* Expressions: Literal, ColumnRef (table and alias "" when not given) and
\* BinaryOp; NoExpr is the None of a clause that was not written
Literal(value) == [ kind |-> "lit", value |-> value ]
ColumnRef(table, column, alias) ==
    [ kind |-> "col", table |-> table, column |-> column, alias |-> alias ]
BinaryOp(left, operator, right) ==
    [ kind |-> "binop", left |-> left, operator |-> operator, right |-> right ]
NoExpr == [ kind |-> "none" ]

\* A row of the result set while it is built, {alias: row, ..., '_row_id': id}:
\* the alias entries in dict order, and the row id (None when the key is missing)
RowData(entries, row_id) == [ entries |-> entries, row_id |-> row_id ]
Entry(alias, row) == [ alias |-> alias, row |-> row ]

Aliases(row_data) == { row_data.entries[i].alias : i \in 1 .. Len(row_data.entries) }

\* row_data[alias]
TableOf(row_data, alias) ==
    row_data.entries[CHOOSE i \in 1 .. Len(row_data.entries) :
                        row_data.entries[i].alias = alias].row

\* combined = row_data.copy(); combined[alias] = row
WithTable(row_data, alias, row) ==
    IF alias \in Aliases(row_data)
    THEN [ row_data EXCEPT !.entries =
             [ i \in 1 .. Len(row_data.entries) |->
                 IF row_data.entries[i].alias = alias THEN Entry(alias, row)
                 ELSE row_data.entries[i] ] ]
    ELSE [ row_data EXCEPT !.entries = Append(@, Entry(alias, row)) ]

\* _flatten_row: the rows of the aliases merged, a later alias overwriting
\* the columns of an earlier one
flatten_row(row_data) ==
    LET e == row_data.entries
        keys == UNION { DOMAIN e[i].row : i \in 1 .. Len(e) }
    IN  [ key \in keys |->
            e[CHOOSE i \in 1 .. Len(e) :
                 /\ key \in DOMAIN e[i].row
                 /\ \A j \in 1 .. Len(e) : key \in DOMAIN e[j].row => j <= i].row[key] ]

\* ExpressionEvaluator._get_column_value with self.row = row, self.tables = tables
get_column_value(col_ref, row, tables) ==
    IF col_ref.table # "" /\ col_ref.table \in Aliases(tables)
    THEN DictGet(TableOf(tables, col_ref.table), col_ref.column)
    ELSE IF /\ col_ref.table # ""
            /\ \E a \in Aliases(tables) :
                  /\ Lower(a) = Lower(col_ref.table)
                  /\ \E k \in DOMAIN TableOf(tables, a) : Lower(k) = Lower(col_ref.column)
    THEN LET a == CHOOSE a \in Aliases(tables) :
                      /\ Lower(a) = Lower(col_ref.table)
                      /\ \E k \in DOMAIN TableOf(tables, a) : Lower(k) = Lower(col_ref.column)
         IN  RowValueNoCase(TableOf(tables, a), col_ref.column)
    ELSE RowValueNoCase(row, col_ref.column)

\* bool(value) of the value of expr: a comparison or a logical operation gives
\* a boolean, a literal or a column an integer or None
bool(expr, value) == IF expr.kind = "binop" THEN value ELSE value # None /\ value # 0

\* ExpressionEvaluator._eval_binary_op with left and right the values of the
\* operands: the logical and the comparison operators
eval_binary_op(op, left, right) ==
    LET operator == op.operator
    IN
    CASE operator = "AND" -> bool(op.left, left) /\ bool(op.right, right)
      [] operator = "OR" -> bool(op.left, left) \/ bool(op.right, right)
      [] operator = "=" -> left = right
      [] operator \in { "!=", "<>" } -> left # right
      [] operator = "<" -> IF left # None /\ right # None THEN left < right ELSE FALSE
      [] operator = ">" -> IF left # None /\ right # None THEN left > right ELSE FALSE
      [] operator = "<=" -> IF left # None /\ right # None THEN left <= right ELSE FALSE
      [] operator = ">=" -> IF left # None /\ right # None THEN left >= right ELSE FALSE
      [] OTHER -> None

\* ExpressionEvaluator(row, tables).evaluate(expr)
RECURSIVE ExpressionEvaluator_evaluate(_, _, _)
ExpressionEvaluator_evaluate(expr, row, tables) ==
    CASE expr.kind = "lit" -> expr.value
      [] expr.kind = "col" -> get_column_value(expr, row, tables)
      [] expr.kind = "binop" ->
            eval_binary_op(expr,
                           ExpressionEvaluator_evaluate(expr.left, row, tables),
                           ExpressionEvaluator_evaluate(expr.right, row, tables))

\* "if evaluator.evaluate(expr)" on a row of the result set
Holds(expr, row_data) ==
    bool(expr, ExpressionEvaluator_evaluate(expr, flatten_row(row_data), row_data))

\* a TableRef's alias: "alias or name"
alias_of(table_ref) == IF table_ref.alias # "" THEN table_ref.alias ELSE table_ref.name

\* executor.py 323-336: left_data combined with the right rows right_ids[k..]
\* that satisfy the join condition
RECURSIVE match_right(_, _, _, _, _)
match_right(w, left_data, join, right_ids, k) ==
    IF k > Len(right_ids) THEN << >>
    ELSE LET combined == WithTable(left_data, alias_of(join.table),
                                   w.tables[Lower(join.table.name)].rows[right_ids[k]])
         IN  (IF join.condition # NoExpr /\ ~ Holds(join.condition, combined)
              THEN << >> ELSE << combined >>)
             \o match_right(w, left_data, join, right_ids, k + 1)

\* an unmatched left row padded with 1 in the right table's columns
NotNullRowMutant(schema) ==
    [ n \in { schema.columns[i].name : i \in 1 .. Len(schema.columns) } |-> 1 ]

\* {col.name: None for col in schema.columns}
NullRow(schema) ==
    [ n \in { schema.columns[i].name : i \in 1 .. Len(schema.columns) } |-> None ]

\* executor.py 320-343: the loop over left_rows[i..]; an unmatched left row of
\* a LEFT JOIN gets the right table's columns as None
RECURSIVE join_left_rows(_, _, _, _)
join_left_rows(w, left_rows, join, i) ==
    IF i > Len(left_rows) THEN << >>
    ELSE LET matched == match_right(w, left_rows[i], join,
                                    scan(w.tables[Lower(join.table.name)]), 1)
         IN  (IF matched = << >> /\ join.join_type = "LEFT"
              THEN << WithTable(left_rows[i], alias_of(join.table),
                                NullRow(w.catalog[Lower(join.table.name)])) >>
              ELSE matched)
             \o join_left_rows(w, left_rows, join, i + 1)

\* executor.py 347-350: the '_row_id' values found in the right rows of result
matched_right_ids(result_rows, right_alias) ==
    { TableOf(result_rows[i], right_alias)["_row_id"] :
        i \in { j \in 1 .. Len(result_rows) :
                  /\ right_alias \in Aliases(result_rows[j])
                  /\ "_row_id" \in DOMAIN TableOf(result_rows[j], right_alias) } }

\* executor.py 355-357: the dict-valued keys of left_rows[0] with None columns
NullLeft(left_rows) ==
    IF left_rows = << >> THEN << >>
    ELSE [ i \in 1 .. Len(left_rows[1].entries) |->
             Entry(left_rows[1].entries[i].alias,
                   [ col \in DOMAIN left_rows[1].entries[i].row |-> None ]) ]

\* combined[key] = ... for the entries[i..]
RECURSIVE with_tables(_, _, _)
with_tables(row_data, entries, i) ==
    IF i > Len(entries) THEN row_data
    ELSE with_tables(WithTable(row_data, entries[i].alias, entries[i].row), entries, i + 1)

\* executor.py 352-358: a row for each right row right_ids[k..] whose id is
\* not in matched
RECURSIVE unmatched_right(_, _, _, _, _, _)
unmatched_right(w, left_rows, join, matched, right_ids, k) ==
    IF k > Len(right_ids) THEN << >>
    ELSE (IF right_ids[k] \in matched THEN << >>
          ELSE << with_tables(RowData(<< Entry(alias_of(join.table),
                                  w.tables[Lower(join.table.name)].rows[right_ids[k]]) >>,
                                      None),
                              NullLeft(left_rows), 1) >>)
         \o unmatched_right(w, left_rows, join, matched, right_ids, k + 1)

\* QueryExecutor._process_join
process_join(w, left_rows, join) ==
    IF Lower(join.table.name) \notin DOMAIN w.tables
    THEN [ raised |-> TRUE, rows |-> << >> ]
    ELSE One({ [ raised |-> FALSE,
                 rows |-> IF join.join_type = "RIGHT"
                          THEN joined \o unmatched_right(w, left_rows, join,
                                             matched_right_ids(joined, alias_of(join.table)),
                                             scan(w.tables[Lower(join.table.name)]), 1)
                          ELSE joined ]
               : joined \in { join_left_rows(w, left_rows, join, 1) } })

\* executor.py 230-239: the initial result set of FROM from_table
base_rows(w, from_table) ==
    LET storage == w.tables[Lower(from_table.name)]
        ids == scan(storage)
    IN  [ i \in 1 .. Len(ids) |->
            RowData(<< Entry(alias_of(from_table), storage.rows[ids[i]]) >>, ids[i]) ]

\* executor.py 242-243: the JOINs joins[k..] applied in order
RECURSIVE process_joins(_, _, _, _)
process_joins(w, rows, joins, k) ==
    IF k > Len(joins) THEN [ raised |-> FALSE, rows |-> rows ]
    ELSE LET r == process_join(w, rows, joins[k])
         IN  IF r.raised THEN r ELSE process_joins(w, r.rows, joins, k + 1)

\* executor.py 246-254: the WHERE filter
RECURSIVE where_filter(_, _)
where_filter(rows, where) ==
    IF rows = << >> THEN << >>
    ELSE (IF Holds(where, Head(rows)) THEN << Head(rows) >> ELSE << >>)
         \o where_filter(Tail(rows), where)

\* aggregates, and the name an aggregate's value gets in the result
Star == [ kind |-> "star" ]
FunctionCall(name, args) == [ kind |-> "func", name |-> name, args |-> args ]
CountStar == FunctionCall("COUNT", << Star >>)
\* str(arg) of an aggregate's argument: '*' or the repr of a ColumnRef without
\* table and alias
str(arg) ==
    IF arg = Star THEN "*"
    ELSE "ColumnRef(column='" \o arg.column \o "', table=None, alias=None)"
\* f"{expr.name}({', '.join(str(a) for a in expr.args)})" for one argument
function_name(func) == func.name \o "(" \o str(func.args[1]) \o ")"

\* a row _process_aggregates made: a flat dict, no aliases and no '_row_id'
Flat(row) == [ flat |-> row ]
is_flat(row) == "flat" \in DOMAIN row

\* the tuple of the GROUP BY expressions' values on a row
group_key(row_data, group_by) ==
    [ i \in 1 .. Len(group_by) |->
        ExpressionEvaluator_evaluate(group_by[i], flatten_row(row_data), row_data) ]

\* executor.py 374-388: the keys of the groups dict, in insertion order
RECURSIVE group_keys(_, _, _)
group_keys(rows, group_by, seen) ==
    IF rows = << >> THEN seen
    ELSE LET key == group_key(Head(rows), group_by)
         IN  group_keys(Tail(rows), group_by,
                        IF \E i \in 1 .. Len(seen) : seen[i] = key THEN seen
                        ELSE Append(seen, key))

\* the rows of one group, in the order they were appended
RECURSIVE group_rows(_, _, _)
group_rows(rows, group_by, key) ==
    IF rows = << >> THEN << >>
    ELSE (IF group_key(Head(rows), group_by) = key THEN << Head(rows) >> ELSE << >>)
         \o group_rows(Tail(rows), group_by, key)

\* the values of an aggregate that keeps the None of a NULL argument
AllValuesMutant(func, rows) ==
    [ i \in 1 .. Len(rows) |->
        IF func.args[1] = Star THEN 1
        ELSE ExpressionEvaluator_evaluate(func.args[1], flatten_row(rows[i]), rows[i]) ]

\* executor.py 426-438: values, a 1 for each row for '*', and for an
\* expression its value on each row where that is not None
RECURSIVE aggregate_values(_, _)
aggregate_values(func, rows) ==
    IF rows = << >> THEN << >>
    ELSE (IF func.args[1] = Star THEN << 1 >>
          ELSE LET val == ExpressionEvaluator_evaluate(func.args[1],
                                                       flatten_row(Head(rows)), Head(rows))
               IN  IF val # None THEN << val >> ELSE << >>)
         \o aggregate_values(func, Tail(rows))

\* sum(values), min(values) and max(values) of a list of integers
RECURSIVE sum(_)
sum(values) == IF values = << >> THEN 0 ELSE Head(values) + sum(Tail(values))
min(values) == CHOOSE x \in SeqToSet(values) : \A y \in SeqToSet(values) : x <= y
max(values) == CHOOSE x \in SeqToSet(values) : \A y \in SeqToSet(values) : x >= y

\* the float sum(values) / len(values), kept as the two integers
Quotient(num, den) == [ num |-> num, den |-> den ]

\* QueryExecutor._compute_aggregate (without DISTINCT)
compute_aggregate(func, rows) ==
    LET values == aggregate_values(func, rows)
    IN  CASE func.name = "COUNT" -> Len(values)
          [] func.name = "SUM" -> IF values # << >> THEN sum(values) ELSE 0
          [] func.name = "AVG" ->
                IF values # << >> THEN Quotient(sum(values), Len(values)) ELSE None
          [] func.name = "MIN" -> IF values # << >> THEN min(values) ELSE None
          [] func.name = "MAX" -> IF values # << >> THEN max(values) ELSE None
          [] OTHER -> None

\* executor.py 399-402: the GROUP BY columns of a group's row
RECURSIVE group_columns(_, _, _, _)
group_columns(row, group_by, key, i) ==
    IF i > Len(group_by) THEN row
    ELSE group_columns(IF group_by[i].kind = "col"
                       THEN DictSet(row, group_by[i].column, key[i]) ELSE row,
                       group_by, key, i + 1)

\* executor.py 405-418: the aggregates and the other columns of a group's row
RECURSIVE aggregate_columns(_, _, _, _)
aggregate_columns(row, columns, rows, i) ==
    IF i > Len(columns) THEN row
    ELSE LET expr == columns[i]
         IN  aggregate_columns(
                 CASE expr.kind = "func" ->
                          DictSet(row, function_name(expr), compute_aggregate(expr, rows))
                   [] expr.kind = "col" /\ expr.column \notin DOMAIN row /\ rows # << >> ->
                          DictSet(row, IF expr.alias # "" THEN expr.alias ELSE expr.column,
                                  ExpressionEvaluator_evaluate(expr, flatten_row(rows[1]),
                                                               rows[1]))
                   [] OTHER -> row,
                 columns, rows, i + 1)

\* QueryExecutor._process_aggregates
process_aggregates(rows, stmt) ==
    IF stmt.group_by # << >>
    THEN LET keys == group_keys(rows, stmt.group_by, << >>)
         IN  [ g \in 1 .. Len(keys) |->
                 Flat(aggregate_columns(
                          group_columns(EmptyDict, stmt.group_by, keys[g], 1),
                          stmt.columns, group_rows(rows, stmt.group_by, keys[g]), 1)) ]
    ELSE << Flat(aggregate_columns(EmptyDict, stmt.columns, rows, 1)) >>

has_aggregates(columns) == \E i \in 1 .. Len(columns) : columns[i].kind = "func"

\* ORDER BY items
OrderByItem(expr, direction) == [ expr |-> expr, direction |-> direction ]

\* the flat row _apply_order_by and _project_columns evaluate on
flat_of(row) == IF is_flat(row) THEN row.flat ELSE flatten_row(row)

\* compare(a, b) of _apply_order_by from item i on: the evaluators there get
\* the flat rows and no tables
RECURSIVE compare(_, _, _, _)
compare(a, b, order_by, i) ==
    IF i > Len(order_by) THEN 0
    ELSE LET item == order_by[i]
             val_a == ExpressionEvaluator_evaluate(item.expr, flat_of(a), RowData(<< >>, None))
             val_b == ExpressionEvaluator_evaluate(item.expr, flat_of(b), RowData(<< >>, None))
             asc == item.direction = "ASC"
         IN  IF val_a = None /\ val_b = None THEN compare(a, b, order_by, i + 1)
             ELSE IF val_a = None THEN (IF asc THEN -1 ELSE 1)
             ELSE IF val_b = None THEN (IF asc THEN 1 ELSE -1)
             ELSE IF val_a < val_b THEN (IF asc THEN -1 ELSE 1)
             ELSE IF val_a > val_b THEN (IF asc THEN 1 ELSE -1)
             ELSE compare(a, b, order_by, i + 1)

\* sorted() is stable: a row goes behind the rows it does not precede
RECURSIVE sorted_insert(_, _, _)
sorted_insert(row, done, order_by) ==
    IF done = << >> THEN << row >>
    ELSE IF compare(row, Head(done), order_by, 1) < 0 THEN << row >> \o done
    ELSE << Head(done) >> \o sorted_insert(row, Tail(done), order_by)

RECURSIVE sorted_from(_, _, _)
sorted_from(rows, done, order_by) ==
    IF rows = << >> THEN done
    ELSE sorted_from(Tail(rows), sorted_insert(Head(rows), done, order_by), order_by)

\* QueryExecutor._apply_order_by
apply_order_by(rows, order_by) == sorted_from(rows, << >>, order_by)

\* Optional[int] of LIMIT and OFFSET: << >> is None, << n >> is n; "if stmt.limit"
NoInt == << >>
Int1(n) == << n >>
truthy(opt) == opt # NoInt /\ opt[1] # 0

\* rows[offset:] and rows[:limit] for a non-negative offset and limit
slice_from(rows, offset) == SubSeq(rows, offset + 1, Len(rows))
slice_to(rows, limit) == SubSeq(rows, 1, IF limit < Len(rows) THEN limit ELSE Len(rows))

\* executor.py 285-288: OFFSET, then LIMIT
apply_limit(rows, stmt) ==
    LET after == IF truthy(stmt.offset) THEN slice_from(rows, stmt.offset[1]) ELSE rows
    IN  IF truthy(stmt.limit) THEN slice_to(after, stmt.limit[1]) ELSE after

\* executor.py 534-567: one row's result_row, columns[i..] written into it
RECURSIVE project_row(_, _, _, _)
project_row(row_data, columns, result_row, i) ==
    IF i > Len(columns) THEN result_row
    ELSE LET col == columns[i]
             flat == flat_of(row_data)
             tables == IF is_flat(row_data) THEN RowData(<< >>, None) ELSE row_data
         IN  project_row(row_data, columns,
                 CASE col.kind = "star" -> flat @@ result_row
                   [] col.kind = "col" ->
                          DictSet(result_row, IF col.alias # "" THEN col.alias ELSE col.column,
                                  ExpressionEvaluator_evaluate(col, flat, tables))
                   [] col.kind = "func" ->
                          DictSet(result_row, function_name(col),
                                  DictGet(flat, function_name(col))),
                 i + 1)

\* the column_names of the result: each name once, in the order first written
RECURSIVE column_names(_, _, _, _)
column_names(rows, columns, names, i) ==
    IF rows = << >> \/ i > Len(columns) THEN names
    ELSE LET col == columns[i]
             name == CASE col.kind = "col" ->
                              IF col.alias # "" THEN col.alias ELSE col.column
                       [] col.kind = "func" -> function_name(col)
                       [] OTHER -> ""
         IN  column_names(rows, columns,
                 IF col.kind = "star" \/ \E j \in 1 .. Len(names) : names[j] = name
                 THEN names ELSE Append(names, name),
                 i + 1)

\* QueryExecutor._project_columns: the rows of the result, one for each row
project_columns(rows, columns) ==
    [ i \in 1 .. Len(rows) |-> project_row(rows[i], columns, EmptyDict, 1) ]

\* SELECT statements
TableRef(name, alias) == [ name |-> name, alias |-> alias ]
JoinClause(table, join_type, condition) ==
    [ table |-> table, join_type |-> join_type, condition |-> condition ]
SelectStatement(columns, from_table, joins, where, group_by, order_by, limit, offset) ==
    [ columns |-> columns, from_table |-> from_table, joins |-> joins, where |-> where,
      group_by |-> group_by, order_by |-> order_by, limit |-> limit, offset |-> offset ]

\* QueryExecutor._execute_select with a FROM; without HAVING and DISTINCT
execute_select(w, stmt) ==
    IF Lower(stmt.from_table.name) \notin DOMAIN w.tables
    THEN [ w |-> w, raised |-> TRUE, rows |-> << >>, columns |-> << >> ]
    ELSE One({ IF joined.raised
               THEN [ w |-> w, raised |-> TRUE, rows |-> << >>, columns |-> << >> ]
               ELSE One({ [ w |-> w, raised |-> FALSE,
                            rows |-> project_columns(limited, stmt.columns),
                            columns |-> column_names(limited, stmt.columns, << >>, 1) ]
                          : limited \in { apply_limit(
                                One({ IF stmt.order_by # << >>
                                      THEN apply_order_by(grouped, stmt.order_by)
                                      ELSE grouped
                                      : grouped \in {
                                          One({ IF stmt.group_by # << >>
                                                   \/ has_aggregates(stmt.columns)
                                                THEN process_aggregates(filtered, stmt)
                                                ELSE filtered
                                                : filtered \in {
                                                    IF stmt.where # NoExpr
                                                    THEN where_filter(joined.rows, stmt.where)
                                                    ELSE joined.rows } }) } }),
                                stmt) } })
               : joined \in { process_joins(w, base_rows(w, stmt.from_table),
                                            stmt.joins, 1) } })

VARIABLES
    catalog, tables, indexes,                            \* the Database instance
    catalog_file, table_files, index_meta, index_files,  \* its data directory
    result,     \* the last statement: its kind and whether it raised
    hist,       \* bookkeeping since table t was created, see HistInit
    tree,       \* the stand-alone BTreeIndex
    last,       \* the last call on it
    lock,       \* TableStorage._lock of table t: the thread that holds it, or None
    threads,    \* each thread's position in TableStorage.insert and its locals
    returned    \* the calls of TableStorage.insert that returned: row id and row

dbvars == << catalog, tables, indexes, catalog_file, table_files, index_meta, index_files,
             result, hist >>
btvars == << tree, last >>
thvars == << lock, threads, returned >>
vars == << dbvars, btvars, thvars >>

World ==
    [ catalog |-> catalog, tables |-> tables, indexes |-> indexes,
      catalog_file |-> catalog_file, table_files |-> table_files,
      index_meta |-> index_meta, index_files |-> index_files ]

\* Database(data_dir) on an empty directory
EmptyWorld ==
    [ catalog |-> EmptyDict, tables |-> EmptyDict, indexes |-> EmptyDict,
      catalog_file |-> EmptyDict, table_files |-> EmptyDict,
      index_meta |-> EmptyDict, index_files |-> EmptyDict ]

Is(w) ==
    /\ catalog = w.catalog
    /\ tables = w.tables
    /\ indexes = w.indexes
    /\ catalog_file = w.catalog_file
    /\ table_files = w.table_files
    /\ index_meta = w.index_meta
    /\ index_files = w.index_files

Becomes(w) ==
    /\ catalog' = w.catalog
    /\ tables' = w.tables
    /\ indexes' = w.indexes
    /\ catalog_file' = w.catalog_file
    /\ table_files' = w.table_files
    /\ index_meta' = w.index_meta
    /\ index_files' = w.index_files

\* hist: reported   the affected_rows of the INSERT statements minus those of the
\*                  DELETE statements since the last TRUNCATE (or CREATE TABLE)
\*       assigned   the row ids TableStorage.insert returned since then
\*       only_dml   no TRUNCATE since CREATE TABLE
HistInit == [ reported |-> 0, assigned |-> << >>, only_dml |-> TRUE ]

Result(op, r) == [ op |-> op, raised |-> r.raised ]
Opened == [ op |-> "open", raised |-> FALSE ]

NoIndex == NewBTreeIndex("none", FALSE, BTreeOrder)
NoCall == [ op |-> "none", raised |-> FALSE, other |-> FALSE ]

\* a thread outside TableStorage.insert
Idle == [ pc |-> "idle", row |-> EmptyDict, validated_row |-> EmptyDict, row_id |-> None ]
Threads == 1 .. NumThreads
NoThreads ==
    /\ lock = None
    /\ threads = [ t \in Threads |-> Idle ]
    /\ returned = << >>

Init ==
    /\ Is(EmptyWorld)
    /\ result = Opened
    /\ hist = HistInit
    /\ tree = NoIndex
    /\ last = NoCall
    /\ NoThreads

\* ---- the statements' inputs
T == "t"
IdColumn == Column("id", TRUE, FALSE, FALSE, None)
Schemas ==
    { << IdColumn, Column("c", FALSE, FALSE, FALSE, None) >>,
      << IdColumn, Column("c", FALSE, TRUE, FALSE, None) >> }
Assignments ==
    { << "id", Lit(v) >> : v \in Ids \cup {None} } \cup { << "c", Lit(v) >> : v \in Cs }
Wheres == { NoWhere } \cup { WhereEq(Col("id"), Lit(v)) : v \in Ids }
\* CREATE INDEX n ON t (c) and CREATE UNIQUE INDEX c ON t (c)
IndexStmts == { [ name |-> "n", unique |-> FALSE ], [ name |-> "c", unique |-> TRUE ] }
IndexNames == { i.name : i \in IndexStmts }

InsertStmt(values) == [ table |-> T, columns |-> << >>, values |-> values ]
UpdateStmt(assignments, where) == [ table |-> T, assignments |-> assignments, where |-> where ]
DeleteStmt(where) == [ table |-> T, where |-> where ]

\* db.execute(statement) gave or raised r
Executed(op, r) ==
    /\ Becomes(r.w)
    /\ result' = Result(op, r)
    /\ UNCHANGED << btvars, thvars >>

\* INSERT runs while the table has handed out fewer than MaxRowId row ids
InsertAllowed == T \in DOMAIN tables => tables[T].next_row_id <= MaxRowId

\* CREATE TABLE t (id INTEGER PRIMARY KEY, c INTEGER [UNIQUE])
CreateTable(columns) ==
    /\ Executed("create_table",
                execute_create_table(World, [ table |-> T, columns |-> columns,
                                              if_not_exists |-> FALSE ]))
    /\ UNCHANGED hist

\* DROP TABLE t
DropTable ==
    /\ Executed("drop_table", execute_drop_table(World, [ table |-> T, if_exists |-> FALSE ]))
    /\ UNCHANGED hist

\* INSERT INTO t VALUES (id, c)
Insert(values) ==
    /\ InsertAllowed
    /\ Executed("insert", execute_insert(World, InsertStmt(values)))
    /\ UNCHANGED hist

\* UPDATE t SET column = value (SpecDML runs UPDATE with a WHERE as well)
Update(assignments, where) ==
    /\ Executed("update", execute_update(World, UpdateStmt(assignments, where)))
    /\ UNCHANGED hist

\* DELETE FROM t [WHERE id = v]
Delete(where) ==
    /\ Executed("delete", execute_delete(World, DeleteStmt(where)))
    /\ UNCHANGED hist

\* CREATE [UNIQUE] INDEX name ON t (column)
CreateIndex(name, column, unique) ==
    /\ Executed("create_index",
                execute_create_index(World, [ table |-> T, name |-> name, column |-> column,
                                              unique |-> unique ]))
    /\ UNCHANGED hist

\* DROP INDEX name ON t
DropIndex(name) ==
    /\ Executed("drop_index", execute_drop_index(World, [ table |-> T, name |-> name ]))
    /\ UNCHANGED hist

\* TRUNCATE TABLE t
Truncate ==
    /\ Executed("truncate", execute_truncate_table(World, [ table |-> T ]))
    /\ UNCHANGED hist

\* db.close(); db = Database(data_dir)
Reopen ==
    /\ Becomes(Database_open(World))
    /\ result' = Opened
    /\ UNCHANGED << hist, btvars, thvars >>

Next ==
    \/ \E columns \in Schemas : CreateTable(columns)
    \/ DropTable
    \/ \E id \in Ids \cup {None}, c \in Cs : Insert(<< << id, c >> >>)
    \/ \E a \in Assignments : Update(<< a >>, NoWhere)
    \/ \E where \in Wheres : Delete(where)
    \/ \E i \in IndexStmts : CreateIndex(i.name, "c", i.unique)
    \/ \E name \in IndexNames : DropIndex(name)
    \/ Truncate
    \/ Reopen

Spec == Init /\ [][Next]_vars

\* ---------------------------------- the row statements, with bookkeeping
\* the database right after CREATE TABLE t (columns)
DMLInit ==
    /\ \E columns \in Schemas :
          Is(execute_create_table(EmptyWorld, [ table |-> T, columns |-> columns,
                                                if_not_exists |-> FALSE ]).w)
    /\ result = [ op |-> "create_table", raised |-> FALSE ]
    /\ hist = HistInit
    /\ tree = NoIndex
    /\ last = NoCall
    /\ NoThreads

CountedInsert(values) ==
    /\ InsertAllowed
    /\ \E r \in { execute_insert(World, InsertStmt(values)) } :
          /\ Executed("insert", r)
          /\ hist' = [ hist EXCEPT !.reported = @ + r.affected,
                                   !.assigned = @ \o r.row_ids ]

CountedUpdate(assignments, where) ==
    /\ Executed("update", execute_update(World, UpdateStmt(assignments, where)))
    /\ UNCHANGED hist

CountedDelete(where) ==
    \E r \in { execute_delete(World, DeleteStmt(where)) } :
        /\ Executed("delete", r)
        /\ hist' = [ hist EXCEPT !.reported = @ - r.affected ]

CountedTruncate ==
    /\ Executed("truncate", execute_truncate_table(World, [ table |-> T ]))
    /\ hist' = [ HistInit EXCEPT !.only_dml = FALSE ]

DMLNext ==
    \/ \E id \in Ids \cup {None}, c \in Cs : CountedInsert(<< << id, c >> >>)
    \/ \E a \in Assignments, where \in Wheres : CountedUpdate(<< a >>, where)
    \/ \E where \in Wheres : CountedDelete(where)
    \/ CountedTruncate

SpecDML == DMLInit /\ [][DMLNext]_vars

\* --------------------------------------------------- multi-row INSERT
\* the value lists of a statement: (id, NULL), (1, 1) and the short list (1)
ShortRow == << 1 >>
StmtRows == { << id, None >> : id \in Ids \cup {None} } \cup { << 1, 1 >>, ShortRow }
ValueLists == UNION { [ 1 .. n -> StmtRows ] : n \in 1 .. MaxRows }

\* INSERT INTO t VALUES (..), (..), ...; it runs while next_row_id <= MaxNext
InsertMany(values) ==
    /\ tables[T].next_row_id <= MaxNext
    /\ Executed("insert", execute_insert(World, InsertStmt(values)))
    /\ UNCHANGED hist

InsertNext ==
    \/ \E values \in ValueLists : InsertMany(values)
    \/ \E where \in Wheres : Delete(where)

SpecInsert == DMLInit /\ [][InsertNext]_vars

\* ------------------------------------------- CREATE TABLE and DROP TABLE as SQL
\* Lexer.KEYWORDS, as far as the statements below use them
KEYWORDS == { "CREATE", "DROP", "TABLE", "PRIMARY", "KEY", "UNIQUE", "NOT", "NULL" }

\* the token the lexer makes of one word of the statement
Token(word) ==
    CASE word \in KEYWORDS -> [ type |-> word, value |-> word ]
      [] word = "(" -> [ type |-> "LPAREN", value |-> word ]
      [] word = ")" -> [ type |-> "RPAREN", value |-> word ]
      [] word = "," -> [ type |-> "COMMA", value |-> word ]
      [] OTHER -> [ type |-> "IDENTIFIER", value |-> word ]

\* Lexer.tokenize: the tokens of the words and EOF
tokenize(words) ==
    [ i \in 1 .. Len(words) |-> Token(words[i]) ] \o << [ type |-> "EOF", value |-> "" ] >>

\* Parser._current at position pos (from 1): past the end it is EOF
current(tokens, pos) == IF pos > Len(tokens) THEN tokens[Len(tokens)] ELSE tokens[pos]

\* Parser._match
match(tokens, pos, type) == current(tokens, pos).type = type

ParseError == [ raised |-> TRUE ]

\* the constraint loop of _parse_column_def from pos on (no DEFAULT here)
RECURSIVE parse_constraints(_, _, _)
parse_constraints(tokens, pos, col_def) ==
    IF match(tokens, pos, "PRIMARY")
    THEN IF match(tokens, pos + 1, "KEY")
         THEN parse_constraints(tokens, pos + 2, [ col_def EXCEPT !.primary_key = TRUE ])
         ELSE ParseError
    ELSE IF match(tokens, pos, "UNIQUE")
    THEN parse_constraints(tokens, pos + 1, [ col_def EXCEPT !.unique = TRUE ])
    ELSE IF match(tokens, pos, "NOT")
    THEN IF match(tokens, pos + 1, "NULL")
         THEN parse_constraints(tokens, pos + 2, [ col_def EXCEPT !.not_null = TRUE ])
         ELSE ParseError
    ELSE [ raised |-> FALSE, col_def |-> col_def, pos |-> pos ]

\* Parser._parse_column_def: name, type and constraints (a type written
\* without a size)
parse_column_def(tokens, pos) ==
    IF ~ match(tokens, pos, "IDENTIFIER") \/ ~ match(tokens, pos + 1, "IDENTIFIER")
    THEN ParseError
    ELSE parse_constraints(tokens, pos + 2,
             [ name |-> tokens[pos].value, data_type |-> tokens[pos + 1].value,
               primary_key |-> FALSE, unique |-> FALSE, not_null |-> FALSE,
               default |-> None ])

\* the column loop of _parse_create_table
RECURSIVE parse_columns(_, _, _)
parse_columns(tokens, pos, columns) ==
    One({ IF c.raised THEN ParseError
          ELSE IF match(tokens, c.pos, "COMMA")
          THEN parse_columns(tokens, c.pos + 1, Append(columns, c.col_def))
          ELSE [ raised |-> FALSE, columns |-> Append(columns, c.col_def), pos |-> c.pos ]
          : c \in { parse_column_def(tokens, pos) } })

\* Parser._parse_create_table, after CREATE TABLE
parse_create_table(tokens, pos) ==
    IF ~ match(tokens, pos, "IDENTIFIER") \/ ~ match(tokens, pos + 1, "LPAREN")
    THEN ParseError
    ELSE One({ IF c.raised \/ ~ match(tokens, c.pos, "RPAREN") THEN ParseError
               ELSE [ raised |-> FALSE, kind |-> "create_table",
                      stmt |-> [ table |-> tokens[pos].value, columns |-> c.columns,
                                 if_not_exists |-> FALSE ] ]
               : c \in { parse_columns(tokens, pos + 2, << >>) } })

\* Parser._parse_drop, the TABLE branch
parse_drop_table(tokens, pos) ==
    IF ~ match(tokens, pos, "IDENTIFIER") THEN ParseError
    ELSE [ raised |-> FALSE, kind |-> "drop_table",
           stmt |-> [ table |-> tokens[pos].value, if_exists |-> FALSE ] ]

\* Parser.parse on a statement that begins CREATE or DROP (no INDEX here)
parse(tokens) ==
    IF match(tokens, 1, "CREATE") /\ match(tokens, 2, "TABLE") THEN parse_create_table(tokens, 3)
    ELSE IF match(tokens, 1, "DROP") /\ match(tokens, 2, "TABLE") THEN parse_drop_table(tokens, 3)
    ELSE ParseError

\* parse_sql
parse_sql(words) == parse(tokenize(words))

\* executor.py 710-719: the Column of each ColumnDef
ColumnsOf(col_defs) ==
    [ i \in 1 .. Len(col_defs) |->
        Column(col_defs[i].name, col_defs[i].primary_key, col_defs[i].unique,
               col_defs[i].not_null, col_defs[i].default) ]

\* Database.execute(sql): parse, then execute; op names the statement
Database_execute(w, words) ==
    One({ IF ast.raised THEN [ op |-> "parse", w |-> w, raised |-> TRUE, affected |-> 0 ]
          ELSE IF ast.kind = "create_table"
          THEN [ op |-> "create_table" ] @@
               execute_create_table(w, [ ast.stmt EXCEPT !.columns = ColumnsOf(@) ])
          ELSE [ op |-> "drop_table" ] @@ execute_drop_table(w, ast.stmt)
          : ast \in { parse_sql(words) } })

\* ---- the statements
ColumnWords == << "(", "id", "INTEGER", "PRIMARY", "KEY", ",", "c", "INTEGER", ")" >>
CreateT == << "CREATE", "TABLE", "t" >> \o ColumnWords
CreateIfNotExistsT == << "CREATE", "TABLE", "IF", "NOT", "EXISTS", "t" >> \o ColumnWords
\* CREATE TABLE IF (...): a table whose name is IF
CreateIF == << "CREATE", "TABLE", "IF" >> \o ColumnWords
DropT == << "DROP", "TABLE", "t" >>
DropIfExistsT == << "DROP", "TABLE", "IF", "EXISTS", "t" >>
Statements == { CreateT, CreateIfNotExistsT, CreateIF, DropT, DropIfExistsT }

\* db.execute(sql)
ExecuteSQL(words) ==
    \E r \in { Database_execute(World, words) } :
        /\ Executed(r.op, r)
        /\ UNCHANGED hist

SQLNext ==
    \/ \E words \in Statements : ExecuteSQL(words)
    \/ \E id \in Ids \cup {None}, c \in Cs : T \in DOMAIN tables /\ Insert(<< << id, c >> >>)
    \/ \E where \in Wheres : T \in DOMAIN tables /\ Delete(where)

SpecSQL == Init /\ [][SQLNext]_vars

\* ------------------------------- threads calling TableStorage.insert on t
\* a lock that never makes a thread wait
LockNeverHeldMutant(holder) == TRUE

\* Lock.acquire returns at once: nobody holds the lock
lock_free(holder) == holder = None

\* thread t is at pc and goes to next with its locals changed to locals
Step(t, pc, next, locals) ==
    /\ threads[t].pc = pc
    /\ threads' = [ threads EXCEPT ![t] = [ pc |-> next ] @@ locals @@ threads[t] ]

\* what every step but the writes to self leaves alone
StorageSame == UNCHANGED << catalog, tables, indexes, catalog_file, table_files, index_meta,
                            index_files, result, hist, btvars >>

\* table_storage.insert(row) is called
Call(t, row) ==
    /\ tables[T].next_row_id <= MaxRowId
    /\ Step(t, "idle", "acquire", [ row |-> row ])
    /\ UNCHANGED << lock, returned >>
    /\ StorageSame

\* with self._lock:
Acquire(t) ==
    /\ lock_free(lock)
    /\ lock' = t
    /\ Step(t, "acquire", "validate", EmptyDict)
    /\ UNCHANGED returned
    /\ StorageSame

\* validated_row = self.schema.validate_row(row)
Validate(t) ==
    /\ \E v \in { validate_row(catalog[T], threads[t].row) } :
          Step(t, "validate", IF v.raised THEN "raise" ELSE "check", [ validated_row |-> v.row ])
    /\ UNCHANGED << lock, returned >>
    /\ StorageSame

\* self._check_unique_constraints(validated_row)
Check(t) ==
    /\ Step(t, "check",
            IF check_unique_constraints(catalog[T], tables[T].rows, threads[t].validated_row, None)
            THEN "raise" ELSE "assign",
            EmptyDict)
    /\ UNCHANGED << lock, returned >>
    /\ StorageSame

\* row_id = self.next_row_id
Assign(t) ==
    /\ Step(t, "assign", "increment", [ row_id |-> assign_row_id(tables[T]) ])
    /\ UNCHANGED << lock, returned >>
    /\ StorageSame

\* self.next_row_id += 1
Increment(t) ==
    /\ Step(t, "increment", "store", EmptyDict)
    /\ tables' = [ tables EXCEPT ![T].next_row_id = @ + 1 ]
    /\ UNCHANGED << lock, returned, catalog, indexes, catalog_file, table_files, index_meta,
                    index_files, result, hist, btvars >>

\* self.rows[row_id] = validated_row
Store(t) ==
    /\ Step(t, "store", "save", EmptyDict)
    /\ tables' = [ tables EXCEPT ![T].rows = DictSet(@, threads[t].row_id, threads[t].validated_row) ]
    /\ UNCHANGED << lock, returned, catalog, indexes, catalog_file, table_files, index_meta,
                    index_files, result, hist, btvars >>

\* self._save()
Save(t) ==
    /\ Step(t, "save", "return", EmptyDict)
    /\ table_files' = save_table(World, T).table_files
    /\ UNCHANGED << lock, returned, catalog, tables, indexes, catalog_file, index_meta,
                    index_files, result, hist, btvars >>

\* return row_id, leaving the with block
Return(t) ==
    /\ Step(t, "return", "idle", Idle)
    /\ lock' = None
    /\ returned' = Append(returned, [ row_id |-> threads[t].row_id,
                                      row |-> threads[t].validated_row ])
    /\ StorageSame

\* the ValueError leaves the with block
Raise(t) ==
    /\ Step(t, "raise", "idle", Idle)
    /\ lock' = None
    /\ UNCHANGED returned
    /\ StorageSame

ThreadNext ==
    \E t \in Threads :
        \/ \E row \in { [ id |-> id, c |-> c ] : id \in Ids \cup {None}, c \in Cs } : Call(t, row)
        \/ Acquire(t)
        \/ Validate(t)
        \/ Check(t)
        \/ Assign(t)
        \/ Increment(t)
        \/ Store(t)
        \/ Save(t)
        \/ Return(t)
        \/ Raise(t)

SpecThreads == DMLInit /\ [][ThreadNext]_vars

\* ------------------------------ UPDATE with columns on the right-hand side
\* SET id = c, c = id; SET c = id; SET c = 1, id = c; SET c = id, c = 1; SET c = v
AssignmentLists ==
    { << << "id", Col("c") >>, << "c", Col("id") >> >>,
      << << "c", Col("id") >> >>,
      << << "c", Lit(1) >>, << "id", Col("c") >> >>,
      << << "c", Col("id") >>, << "c", Lit(1) >> >> }
    \cup { << << "c", Lit(val) >> >> : val \in Cs }
\* no WHERE, WHERE id = v and WHERE c = v
ColumnWheres == Wheres \cup { WhereEq(Col("c"), Lit(val)) : val \in Ids }

\* db.execute(UPDATE t SET assignments WHERE where): result keeps the statement
\* and the rows of t before it
UpdateRows(assignments, where) ==
    \E r \in { execute_update(World, UpdateStmt(assignments, where)) } :
        /\ Becomes(r.w)
        /\ result' = [ op |-> "update", raised |-> r.raised,
                       stmt |-> UpdateStmt(assignments, where),
                       before |-> tables[T].rows, affected |-> r.affected ]
        /\ UNCHANGED << hist, btvars, thvars >>

UpdateNext ==
    \/ \E id \in Ids, c \in Cs : Insert(<< << id, c >> >>)
    \/ \E assignments \in AssignmentLists, where \in ColumnWheres :
          UpdateRows(assignments, where)
    \/ \E where \in Wheres : Delete(where)

SpecUpdate == DMLInit /\ [][UpdateNext]_vars

\* ------------------------------------- rows of a table with a VARCHAR column
\* CREATE TABLE t (id INTEGER PRIMARY KEY, c INTEGER [NOT NULL] [DEFAULT 1],
\*                  s VARCHAR(size))
RowSchemas ==
    { << IdColumn, Column("c", FALSE, FALSE, not_null, default),
         [ Column("s", FALSE, FALSE, FALSE, None) EXCEPT !.col_type = ColumnType("VARCHAR", size) ] >> :
        not_null \in BOOLEAN, default \in { None, 1 }, size \in 0 .. MaxSize }

RowsInit ==
    /\ \E columns \in RowSchemas :
          Is(execute_create_table(EmptyWorld, [ table |-> T, columns |-> columns,
                                                if_not_exists |-> FALSE ]).w)
    /\ result = [ op |-> "create_table", raised |-> FALSE ]
    /\ hist = HistInit
    /\ tree = NoIndex
    /\ last = NoCall
    /\ NoThreads

\* the strings of up to MaxLen letters, and NULL
Texts == { Text(n) : n \in 0 .. MaxLen } \cup { None }

\* INSERT INTO t VALUES (id, c, s)
InsertRow(id, c, s) == Insert(<< << id, c, s >> >>)

\* INSERT INTO t (id, s) VALUES (id, s): no value for column c
InsertColumns(id, s) ==
    /\ InsertAllowed
    /\ Executed("insert", execute_insert(World, [ table |-> T, columns |-> << "id", "s" >>,
                                                   values |-> << << id, s >> >> ]))
    /\ UNCHANGED hist

RowsNext ==
    \/ \E id \in Ids, c \in Cs, s \in Texts : InsertRow(id, c, s)
    \/ \E id \in Ids, s \in Texts : InsertColumns(id, s)
    \/ \E c \in Cs : Update(<< << "c", Lit(c) >> >>, NoWhere)
    \/ \E s \in Texts, where \in Wheres : Update(<< << "s", Lit(s) >> >>, where)

SpecRows == RowsInit /\ [][RowsNext]_vars

\* ------------------------------ CREATE INDEX on a table that has rows
\* the column of t as the schema spells it and in upper case
IndexColumns == { "c", "C" }

IndexNext ==
    \/ \E id \in Ids, c \in Cs : Insert(<< << id, c >> >>)
    \/ \E where \in Wheres : Delete(where)
    \/ \E i \in IndexStmts, column \in IndexColumns : CreateIndex(i.name, column, i.unique)

SpecIndex == DMLInit /\ [][IndexNext]_vars

\* ------------------------------------------------- SELECT on two tables
\* CREATE TABLE a (k INTEGER, v INTEGER); CREATE TABLE b (k INTEGER, w INTEGER)
A == "a"
B == "b"
CreateStmt(table, value_column) ==
    [ table |-> table, if_not_exists |-> FALSE,
      columns |-> << Column("k", FALSE, FALSE, FALSE, None),
                     Column(value_column, FALSE, FALSE, FALSE, None) >> ]

SelectInit ==
    /\ Is(execute_create_table(execute_create_table(EmptyWorld, CreateStmt(A, "v")).w,
                               CreateStmt(B, "w")).w)
    /\ result = [ op |-> "create_table", raised |-> FALSE ]
    /\ hist = HistInit
    /\ tree = NoIndex
    /\ last = NoCall
    /\ NoThreads

Ks == (1 .. MaxK) \cup {None}
MaxOf(table) == IF table = A THEN MaxLeft ELSE MaxRight

\* INSERT INTO table VALUES (k, n), n the number of the row in the table
InsertInto(table, k) ==
    /\ tables[table].next_row_id <= MaxOf(table)
    /\ Executed("insert",
                execute_insert(World, [ table |-> table, columns |-> << >>,
                                        values |-> << << k, tables[table].next_row_id >> >> ]))
    /\ UNCHANGED hist

\* the columns the statements select and compare
a_k == ColumnRef("a", "k", "ak")
a_v == ColumnRef("a", "v", "av")
b_k == ColumnRef("b", "k", "bk")
b_w == ColumnRef("b", "w", "bw")
col_k == ColumnRef("", "k", "")
col_v == ColumnRef("", "v", "")
NULL == Literal(None)
Comparisons == { "=", "!=", "<>", "<", ">", "<=", ">=" }

\* SELECT a.k AS ak, a.v AS av, b.k AS bk, b.w AS bw FROM a <type> JOIN b ON <on>
JoinStmt(join_type, on) ==
    SelectStatement(<< a_k, a_v, b_k, b_w >>, TableRef(A, ""),
                    << JoinClause(TableRef(B, ""), join_type, on) >>,
                    NoExpr, << >>, << >>, NoInt, NoInt)
OnConditions == { BinaryOp(a_k, "=", b_k), BinaryOp(a_k, "<", b_k), BinaryOp(a_k, "!=", b_k) }
JoinStmts(join_type) == { JoinStmt(join_type, on) : on \in OnConditions }

\* SELECT k, v FROM a ORDER BY k <direction> [LIMIT <limit> [OFFSET <offset>]]
OrderStmt(direction, limit, offset) ==
    SelectStatement(<< col_k, col_v >>, TableRef(A, ""), << >>, NoExpr, << >>,
                    << OrderByItem(col_k, direction) >>, limit, offset)
OrderStmts == { OrderStmt(direction, NoInt, NoInt) : direction \in { "ASC", "DESC" } }
Limits == { Int1(n) : n \in 0 .. MaxLimit }
LimitStmts == { OrderStmt("ASC", limit, offset) : limit \in Limits, offset \in Limits \cup { NoInt } }

\* SELECT k, v FROM a WHERE <left> <operator> <right>
WhereStmt(where) ==
    SelectStatement(<< col_k, col_v >>, TableRef(A, ""), << >>, where, << >>, << >>, NoInt, NoInt)
WhereConditions ==
    { BinaryOp(col_k, operator, right) : operator \in Comparisons, right \in { NULL, Literal(1) } }
    \cup { BinaryOp(NULL, "=", NULL), BinaryOp(col_k, "=", col_k) }
WhereStmts == { WhereStmt(where) : where \in WhereConditions }

\* SELECT k, COUNT(*) FROM a GROUP BY k
GroupStmt ==
    SelectStatement(<< col_k, CountStar >>, TableRef(A, ""), << >>, NoExpr, << col_k >>, << >>,
                    NoInt, NoInt)

\* SELECT [g,] COUNT(*), COUNT(x), SUM(x), AVG(x), MIN(x), MAX(x) FROM a [GROUP BY g]
Aggregates(x) ==
    << CountStar, FunctionCall("COUNT", << x >>), FunctionCall("SUM", << x >>),
       FunctionCall("AVG", << x >>), FunctionCall("MIN", << x >>),
       FunctionCall("MAX", << x >>) >>
AggregateStmt(group_by, x) ==
    SelectStatement(group_by \o Aggregates(x), TableRef(A, ""), << >>, NoExpr, group_by,
                    << >>, NoInt, NoInt)
AggregateStmts ==
    { AggregateStmt(<< >>, col_k), AggregateStmt(<< col_v >>, col_k),
      AggregateStmt(<< col_k >>, col_v) }

SelectStmts ==
    JoinStmts("INNER") \cup JoinStmts("LEFT") \cup JoinStmts("RIGHT")
    \cup OrderStmts \cup LimitStmts \cup WhereStmts \cup { GroupStmt } \cup AggregateStmts

\* db.execute(stmt) for a SELECT: result keeps the statement and what it gave
Select(stmt) ==
    \E r \in { execute_select(World, stmt) } :
        /\ Becomes(r.w)
        /\ result' = [ op |-> "select", raised |-> r.raised, stmt |-> stmt,
                       rows |-> r.rows, columns |-> r.columns ]
        /\ UNCHANGED << hist, btvars, thvars >>

SelectNext ==
    \/ \E table \in { A, B }, key \in Ks : InsertInto(table, key)
    \/ \E stmt \in SelectStmts : Select(stmt)

SpecSelect == SelectInit /\ [][SelectNext]_vars

\* ------------------------------------------------ the stand-alone B-tree

\* last: op, whether insert raised, and "other": before an insert, whether the
\* key held a row id other than the one inserted; after a delete, its result
BTInit ==
    /\ \E u \in BOOLEAN : tree = NewBTreeIndex("idx", u, BTreeOrder)
    /\ last = NoCall
    /\ Is(EmptyWorld)
    /\ result = Opened
    /\ hist = HistInit
    /\ NoThreads

\* index.insert(key, row_id)
BTInsert(key, row_id) ==
    \E r \in { BTreeIndex_insert(tree, key, row_id) } :
        /\ tree' = r.idx
        /\ last' = [ op |-> "insert", raised |-> r.raised,
                     other |-> (KeyRowIds(tree, key) \ {row_id} # {}) ]
        /\ UNCHANGED << dbvars, thvars >>

\* index.delete(key, row_id)
BTDelete(key, row_id) ==
    \E r \in { BTreeIndex_delete(tree, key, row_id) } :
        /\ tree' = r.idx
        /\ last' = [ op |-> "delete", raised |-> FALSE, other |-> r.result ]
        /\ UNCHANGED << dbvars, thvars >>

BTNext ==
    \/ \E k \in 1 .. MaxKey, r \in 1 .. MaxRid : BTInsert(k, r)
    \/ \E k \in 1 .. MaxKey, r \in 1 .. MaxRid : BTDelete(k, r)

SpecBTree == BTInit /\ [][BTNext]_vars

\* enough keys, under one row id, for a tree of three levels
DeepNext ==
    \/ \E key \in 1 .. MaxDeepKey : BTInsert(key, 1)
    \/ \E key \in 1 .. MaxDeepDelete : BTDelete(key, 1)

SpecDeep == BTInit /\ [][DeepNext]_vars

\* the same trees in a non-unique index, where no insert raises; the calls
\* are not recorded, a range search reads the tree only
RangeInit == BTInit /\ ~ tree.unique

RangeInsert(key) ==
    /\ tree' = BTreeIndex_insert(tree, key, 1).idx
    /\ UNCHANGED << last, dbvars, thvars >>

RangeDelete(key) ==
    /\ tree' = BTreeIndex_delete(tree, key, 1).idx
    /\ UNCHANGED << last, dbvars, thvars >>

RangeNext ==
    \/ \E key \in 1 .. MaxDeepKey : RangeInsert(key)
    \/ \E key \in 1 .. MaxDeepDelete : RangeDelete(key)

SpecRange == RangeInit /\ [][RangeNext]_vars

\* ================================================================= claims
\* ---- vocabulary
Rows == tables[T].rows
TableIndexes == get_table_indexes(World, T)

\* {(row[C], rid) : rid a stored row of t, row[C] not NULL}
RowPairs(column) ==
    { << RowValueNoCase(Rows[rid], column), rid >> :
        rid \in { r \in DOMAIN Rows : RowValueNoCase(Rows[r], column) # None } }

\* the tree holds exactly pairs, each pair once
HoldsExactly(idx, pairs) ==
    /\ TreePairs(idx) = pairs
    /\ \A n \in DOMAIN idx.nodes : \A i \in 1 .. Len(idx.nodes[n].keys) :
          /\ Cardinality(KeySlots(idx, idx.nodes[n].keys[i])) = 1
          /\ Cardinality(SeqToSet(idx.nodes[n].values[i])) = Len(idx.nodes[n].values[i])

\* the files of table t that exist in the data directory
IndexFilesOfT == { f \in DOMAIN index_files : f[1] = T }

\* C1 (SpecDML): after any sequence of INSERT, UPDATE and DELETE on t, every
\* index on a column C of t holds exactly the pairs (row[C], row id) of the
\* stored rows whose C is not NULL, each once.
C1_IndexMatchesRows ==
    hist.only_dml =>
        \A i \in 1 .. Len(TableIndexes) :
            HoldsExactly(TableIndexes[i], RowPairs(TableIndexes[i].column))

\* ---- C2
\* a row that repeats a non-NULL value of a UNIQUE column held by a stored
\* row other than row id `except`
Duplicates(schema, rows, row, except) ==
    \E i \in 1 .. Len(schema.columns) :
        /\ schema.columns[i].unique
        /\ row[schema.columns[i].name] # None
        /\ \E rid \in DOMAIN rows \ {except} :
              rows[rid][schema.columns[i].name] = row[schema.columns[i].name]

NoDuplicateStored ==
    \A r1 \in DOMAIN Rows : ~ Duplicates(catalog[T], Rows, Rows[r1], r1)

InsertRows == { [ id |-> id, c |-> c ] : id \in Ids, c \in Cs }
UpdateDicts == { [ n \in {a[1]} |-> a[2].value ] : a \in Assignments }

DuplicateInsertRejected ==
    \A row \in InsertRows :
        Duplicates(catalog[T], Rows, row, None) =>
            LET r == TableStorage_insert(tables[T], catalog[T], row)
            IN  r.raised /\ r.storage = tables[T]

DuplicateUpdateRejected ==
    \A rid \in DOMAIN Rows, u \in UpdateDicts :
        Duplicates(catalog[T], Rows, MergeUpdates(catalog[T], Rows[rid], u), rid) =>
            LET r == TableStorage_update(tables[T], catalog[T], rid, u)
            IN  r.raised /\ r.storage = tables[T]

\* C2 (SpecDML): no two stored rows hold the same non-NULL value in a PRIMARY
\* KEY or UNIQUE column, and a storage insert or update that would make two
\* rows do so raises and leaves the stored rows as they are.
C2_UniqueColumns ==
    /\ NoDuplicateStored
    /\ DuplicateInsertRejected
    /\ DuplicateUpdateRejected

\* two rows are stored, both with c NULL in a table whose c is UNIQUE, and the
\* last statement, an UPDATE, raised
C2_Witness ==
    /\ catalog[T].columns[2].unique
    /\ Cardinality(DOMAIN Rows) = 2
    /\ \A r \in DOMAIN Rows : Rows[r]["c"] = None
    /\ result = [ op |-> "update", raised |-> TRUE ]
    /\ \E row \in InsertRows : Duplicates(catalog[T], Rows, row, None)

\* C3 (SpecDML): the row ids storage insert hands out since the last TRUNCATE
\* are strictly increasing, the N-th is N, and every stored row id is one of
\* them and below next_row_id.
C3_RowIdsIncrease ==
    /\ \A i, j \in 1 .. Len(hist.assigned) : i < j => hist.assigned[i] < hist.assigned[j]
    /\ \A i \in 1 .. Len(hist.assigned) : hist.assigned[i] = i
    /\ DOMAIN Rows \subseteq SeqToSet(hist.assigned)
    /\ \A rid \in DOMAIN Rows : rid < tables[T].next_row_id

\* MaxRowId ids were handed out and only the last row is still stored
C3_Witness ==
    /\ Len(hist.assigned) = MaxRowId
    /\ DOMAIN Rows = { MaxRowId }
    /\ hist.only_dml

\* C4 (SpecDML): COUNT(*) of t is the rows the INSERT statements reported
\* minus the rows the DELETE statements reported since the last TRUNCATE.
C4_CountMatchesReports == count(World, T) = hist.reported

\* C5 (Spec): a Database opened on the data directory holds what the
\* instance that wrote it holds: catalog, rows and next_row_id, indexes.
C5_ReopenSame ==
    LET o == Database_open(World)
    IN  /\ o.catalog = catalog
        /\ o.tables = tables
        /\ o.indexes = indexes

\* C6 (SpecBTree): insert(key, r) raises only when the key holds a row id
\* other than r.
C6_RejectsOnlyOtherRowId == (last.op = "insert" /\ last.raised) => last.other

\* C7 (SpecBTree): in a unique index no key holds two distinct row ids.
C7_UniqueOneRowId ==
    tree.unique => \A k \in TreeKeys(tree) : Cardinality(KeyRowIds(tree, k)) <= 1

\* a unique tree of two levels has just refused a second row id for a key
C7_Witness ==
    /\ tree.unique
    /\ Depth(tree, tree.root_id) > 1
    /\ last = [ op |-> "insert", raised |-> TRUE, other |-> TRUE ]

\* C8 (Spec): TRUNCATE of an existing table t succeeds and leaves no rows,
\* next_row_id 1 and the same indexes (column, uniqueness), all empty.
C8_TruncateEmpties ==
    [][ (T \in DOMAIN tables /\ result'.op = "truncate") =>
          /\ ~ result'.raised
          /\ tables'[T] = NewTableStorage
          /\ Len(get_table_indexes(World, T)') = Len(TableIndexes)
          /\ \A i \in 1 .. Len(TableIndexes) :
                /\ get_table_indexes(World, T)'[i].column = TableIndexes[i].column
                /\ get_table_indexes(World, T)'[i].unique = TableIndexes[i].unique
                /\ TreePairs(get_table_indexes(World, T)'[i]) = {} ]_vars

\* C9 (Spec): DROP INDEX name ON t leaves no index of that name in the
\* IndexManager, in the metadata or as a file.
C9_DropIndexDestroys ==
    [][ \A name \in IndexNames :
          DropIndex(name) =>
            /\ \A i \in 1 .. Len(get_table_indexes(World, T)') :
                  get_table_indexes(World, T)'[i].name # name
            /\ T \in DOMAIN index_meta' =>
                  \A i \in 1 .. Len(index_meta'[T]) : index_meta'[T][i].name # name
            /\ Cardinality(IndexFilesOfT') <= Len(get_table_indexes(World, T)') ]_vars

\* no trace of table t: catalog, storage, indexes, metadata, files
NoTraceOfT ==
    /\ T \notin DOMAIN catalog /\ T \notin DOMAIN catalog_file
    /\ T \notin DOMAIN tables /\ T \notin DOMAIN table_files
    /\ T \notin DOMAIN indexes /\ T \notin DOMAIN index_meta
    /\ IndexFilesOfT = {}

\* table t as new: no rows, next_row_id 1, every index an empty tree
FreshT ==
    /\ tables[T] = NewTableStorage
    /\ \A i \in 1 .. Len(TableIndexes) :
          /\ TreeKeys(TableIndexes[i]) = {}
          /\ << T, TableIndexes[i].column >> \notin DOMAIN index_files

\* C10 (Spec): after a successful DROP TABLE t nothing of t remains, and a
\* successful CREATE TABLE t starts with no rows, row-id counter 1 and empty
\* indexes.
C10_DropTableRemovesAll ==
    /\ (result = [ op |-> "drop_table", raised |-> FALSE ]) => NoTraceOfT
    /\ (result = [ op |-> "create_table", raised |-> FALSE ]) => FreshT

\* DROP TABLE t has just succeeded
C10_Witness == result = [ op |-> "drop_table", raised |-> FALSE ] /\ NoTraceOfT

\* ---- C11
\* the statement's first failing row is one whose value count differs from
\* the table's column count: the rows before it insert without an error
FailsOnColumnCount(values) ==
    \E k \in 1 .. Len(values) :
        /\ Len(values[k]) # Len(get_column_names(catalog[T]))
        /\ ~ execute_insert(World, InsertStmt(SubSeq(values, 1, k - 1))).raised

\* C11 (SpecInsert): an INSERT statement that fails with a schema error (a
\* value list whose length is not the column count, also in a later row of a
\* multi-row INSERT) raises and leaves rows, next_row_id, catalog, indexes and
\* the files as they were before the statement.
C11_NoPartialEffect ==
    [][ \A values \in ValueLists :
          (InsertMany(values) /\ FailsOnColumnCount(values)) =>
              /\ result'.raised
              /\ UNCHANGED << catalog, tables, indexes, catalog_file, table_files,
                              index_meta, index_files >> ]_vars

\* ---- C12
\* the row a value list of the statement gives
RowOf(value_row) == [ id |-> value_row[1], c |-> value_row[2] ]

\* row k is the statement's failing row and has a value per column: the rows
\* before it insert without an error, and with row k the statement raises a
\* constraint error (NOT NULL, duplicate value or duplicate key)
RaisesAtRow(values, k) ==
    /\ Len(values[k]) = Len(get_column_names(catalog[T]))
    /\ ~ execute_insert(World, InsertStmt(SubSeq(values, 1, k - 1))).raised
    /\ execute_insert(World, InsertStmt(SubSeq(values, 1, k))).raised

\* in database w, left by the statement, the table holds its old rows and
\* rows 1 .. k-1 of the statement under the next k-1 row ids, and nothing else
StoredUpTo(w, values, k) ==
    LET n == tables[T].next_row_id
    IN  w.tables[T].rows =
            [ rid \in DOMAIN Rows \cup (n .. n + k - 2) |->
                IF rid \in DOMAIN Rows THEN Rows[rid] ELSE RowOf(values[rid - n + 1]) ]

\* in database w every index of t holds the pair of each of the rows 1 .. k-1
IndexedUpTo(w, values, k) ==
    \A i \in 1 .. Len(w.indexes[T]), j \in 1 .. k - 1 :
        RowOf(values[j])[w.indexes[T][i].column] # None =>
            << RowOf(values[j])[w.indexes[T][i].column], tables[T].next_row_id + j - 1 >>
                \in TreePairs(w.indexes[T][i])

\* what the statement leaves when it fails at row k
RowsBeforeFailureStay(values, k) ==
    LET r == execute_insert(World, InsertStmt(values))
    IN  /\ r.raised
        /\ StoredUpTo(r.w, values, k)
        /\ IndexedUpTo(r.w, values, k)

\* C12 (SpecInsert): in every reachable database, when row k of a multi-row
\* INSERT fails with a constraint error, the statement raises, rows 1..k-1 are
\* stored under consecutive row ids and are indexed, and rows k and later are
\* not stored.
C12_RowsBeforeFailureStay ==
    \A values \in ValueLists : \A k \in 1 .. Len(values) :
        RaisesAtRow(values, k) => RowsBeforeFailureStay(values, k)

\* ---- C13
\* nothing of the database or its data directory changes
NoChange ==
    UNCHANGED << catalog, tables, indexes, catalog_file, table_files, index_meta, index_files >>

\* C13 (SpecSQL): CREATE TABLE IF NOT EXISTS t on an existing table t and
\* DROP TABLE IF EXISTS t on a missing table t do not raise and change nothing.
C13_IfExistsNoOp ==
    [][ /\ (ExecuteSQL(CreateIfNotExistsT) /\ table_exists(World, T)) =>
              (~ result'.raised /\ NoChange)
        /\ (ExecuteSQL(DropIfExistsT) /\ ~ table_exists(World, T)) =>
              (~ result'.raised /\ NoChange) ]_vars

\* ---- C14
\* two rows hold the same non-NULL value in a UNIQUE column of t
SameUniqueValue(row1, row2) ==
    \E col_name \in unique_columns(catalog[T]) :
        row1[col_name] # None /\ row1[col_name] = row2[col_name]

\* C14 (SpecThreads): threads that call TableStorage.insert on one table get
\* distinct row ids, every row a call stored is still stored under its id,
\* and of two calls whose rows hold the same non-NULL value in a UNIQUE
\* column at most one returns.
C14_InsertAtomic ==
    /\ \A i, j \in 1 .. Len(returned) :
          i # j => /\ returned[i].row_id # returned[j].row_id
                   /\ ~ SameUniqueValue(returned[i].row, returned[j].row)
    /\ \A i \in 1 .. Len(returned) :
          /\ returned[i].row_id \in DOMAIN Rows
          /\ Rows[returned[i].row_id] = returned[i].row

\* one thread is storing its row while the other, called with the same id,
\* waits for the lock
C14_Witness ==
    /\ threads[1].pc = "acquire"
    /\ threads[2].pc = "store"
    /\ lock = 2
    /\ threads[1].row["id"] = threads[2].row["id"]
    /\ threads[1].row["id"] # None

\* ---- C15
\* the stored rows that satisfy the statement's WHERE (none: every row;
\* id = v: the rows whose id is v)
Satisfying(where) ==
    { rid \in DOMAIN Rows :
        where.kind = "none" \/ (Rows[rid]["id"] # None /\ Rows[rid]["id"] = where.right.value) }

\* UPDATE t SET a WHERE where, when it does not raise: the rows that satisfy
\* WHERE hold the assigned value in the assigned column, nothing else differs
\* and affected_rows counts the rows that satisfy WHERE
UpdateChangesExactly(a, where) ==
    LET r == execute_update(World, UpdateStmt(<< a >>, where))
    IN  ~ r.raised =>
            /\ r.w.tables[T].rows =
                   [ rid \in DOMAIN Rows |->
                       IF rid \in Satisfying(where)
                       THEN [ Rows[rid] EXCEPT ![a[1]] = a[2].value ]
                       ELSE Rows[rid] ]
            /\ r.w.tables[T].next_row_id = tables[T].next_row_id
            /\ r.affected = Cardinality(Satisfying(where))

\* DELETE FROM t WHERE where: the rows that satisfy WHERE are gone, the others
\* are as they were, and affected_rows counts the rows that satisfy WHERE
DeleteRemovesExactly(where) ==
    LET r == execute_delete(World, DeleteStmt(where))
    IN  /\ ~ r.raised
        /\ r.w.tables[T].rows = [ rid \in DOMAIN Rows \ Satisfying(where) |-> Rows[rid] ]
        /\ r.w.tables[T].next_row_id = tables[T].next_row_id
        /\ r.affected = Cardinality(Satisfying(where))

\* C15 (SpecDML): in every reachable database an UPDATE that completes changes
\* exactly the rows that satisfy its WHERE, and only the assigned column; a
\* DELETE removes exactly the rows that satisfy its WHERE; other rows, other
\* columns and the row ids stay, and affected_rows is the number of rows that
\* satisfy the WHERE.
C15_ExactlyMatchingRows ==
    /\ \A a \in Assignments, where \in Wheres : UpdateChangesExactly(a, where)
    /\ \A where \in Wheres : DeleteRemovesExactly(where)

\* an UPDATE has just completed, two rows are stored, and some UPDATE with a
\* WHERE completes that changes one of them and not the other
C15_Witness ==
    /\ result = [ op |-> "update", raised |-> FALSE ]
    /\ Cardinality(DOMAIN Rows) = 2
    /\ \E a \in Assignments, where \in Wheres :
          LET r == execute_update(World, UpdateStmt(<< a >>, where))
          IN  /\ Cardinality(Satisfying(where)) = 1
              /\ ~ r.raised
              /\ r.w.tables[T].rows # Rows

\* ---- C16
\* the last statement was a SELECT of stmts and it completed
LastSelect(stmts) == result.op = "select" /\ result.stmt \in stmts /\ ~ result.raised

\* the rows of the last SELECT, as a set
ResultRows == { result.rows[i] : i \in 1 .. Len(result.rows) }

LeftIds == DOMAIN tables[A].rows
RightIds == DOMAIN tables[B].rows

\* the ON condition holds for row l of a and row r of b
Matching(on, l, r) ==
    Holds(on, RowData(<< Entry(A, tables[A].rows[l]), Entry(B, tables[B].rows[r]) >>, l))

\* what SELECT a.k AS ak, a.v AS av, b.k AS bk, b.w AS bw shows for a pair,
\* for a left row with NULL right-side columns, and for a right row with NULL
\* left-side columns
PairRow(l, r) ==
    [ ak |-> tables[A].rows[l].k, av |-> tables[A].rows[l].v,
      bk |-> tables[B].rows[r].k, bw |-> tables[B].rows[r].w ]
LeftOnlyRow(l) ==
    [ ak |-> tables[A].rows[l].k, av |-> tables[A].rows[l].v, bk |-> None, bw |-> None ]
RightOnlyRow(r) ==
    [ ak |-> None, av |-> None, bk |-> tables[B].rows[r].k, bw |-> tables[B].rows[r].w ]

MatchingPairs(on) ==
    { PairRow(l, r) : << l, r >> \in { p \in LeftIds \X RightIds : Matching(on, p[1], p[2]) } }
UnmatchedLeft(on) == { l \in LeftIds : \A r \in RightIds : ~ Matching(on, l, r) }
UnmatchedRight(on) == { r \in RightIds : \A l \in LeftIds : ~ Matching(on, l, r) }

\* C16 (SpecSelect): the rows of a LEFT JOIN b ON on are one row for each pair
\* of a left and a right row for which the ON condition holds and one row,
\* with NULL in the right table's columns, for each left row for which it holds
\* with no right row, each of them once; so there are at least as many rows as
\* left rows.
C16_LeftJoin ==
    LastSelect(JoinStmts("LEFT")) =>
        LET on == result.stmt.joins[1].condition
            expected == MatchingPairs(on) \cup { LeftOnlyRow(l) : l \in UnmatchedLeft(on) }
        IN  /\ ResultRows = expected
            /\ Len(result.rows) = Cardinality(expected)
            /\ Len(result.rows) >= Cardinality(LeftIds)

\* a LEFT JOIN has just given a row of a pair and a row of a left row alone
C16_Witness ==
    /\ LastSelect(JoinStmts("LEFT"))
    /\ \E l1, l2 \in LeftIds, r \in RightIds :
          /\ PairRow(l1, r) \in ResultRows
          /\ LeftOnlyRow(l2) \in ResultRows

\* ---- C17
\* the positions of the last SELECT's rows that satisfy P
Positions(P(_)) == { i \in 1 .. Len(result.rows) : P(result.rows[i]) }

\* C17 (SpecSelect): the rows of a RIGHT JOIN b ON on are one row for each pair
\* of a left and a right row for which the ON condition holds, and one more
\* row (without a left row) for each right row for which it holds with no left
\* row; a right row for which it holds with some left row gets no such row.
C17_RightJoin ==
    LastSelect(JoinStmts("RIGHT")) =>
        LET on == result.stmt.joins[1].condition
            IsPair(row) == row.av # None
        IN  /\ { result.rows[i] : i \in Positions(IsPair) } = MatchingPairs(on)
            /\ Cardinality(Positions(IsPair)) = Cardinality(MatchingPairs(on))
            /\ \A r \in RightIds :
                  LET IsAlone(row) == row.av = None /\ row.bw = tables[B].rows[r].w
                  IN  Cardinality(Positions(IsAlone)) =
                          IF r \in UnmatchedRight(on) THEN 1 ELSE 0

\* ---- C18
\* C18 (SpecSelect): in the rows of SELECT k, v FROM a ORDER BY k ASC and of
\* ... ORDER BY k DESC no row with a non-NULL k comes before a row with a
\* NULL k.
C18_NullsFirst ==
    LastSelect(OrderStmts) =>
        \A i, j \in 1 .. Len(result.rows) :
            i < j /\ result.rows[j].k = None => result.rows[i].k = None

\* ---- C19
\* the rows of the last SELECT's statement without its LIMIT and OFFSET
Unlimited == execute_select(World, [ result.stmt EXCEPT !.limit = NoInt, !.offset = NoInt ]).rows

\* C19 (SpecSelect): the rows of SELECT k, v FROM a ORDER BY k LIMIT n [OFFSET m]
\* are the rows at positions m+1 .. m+n of the rows of the statement without
\* LIMIT and OFFSET (m = 0 without OFFSET), as far as there are any, so never
\* more than n, and none for LIMIT 0.
C19_LimitOffset ==
    LastSelect(LimitStmts) =>
        LET n == result.stmt.limit[1]
            m == IF result.stmt.offset = NoInt THEN 0 ELSE result.stmt.offset[1]
            all == Unlimited
            to == IF m + n < Len(all) THEN m + n ELSE Len(all)
        IN  /\ result.rows = SubSeq(all, m + 1, to)
            /\ Len(result.rows) <= n

\* ---- C20
\* the value of an operand of a WHERE comparison on a row SELECT k, v shows
OperandValue(expr, row) == IF expr.kind = "lit" THEN expr.value ELSE row[expr.column]

\* the rows of a that have a NULL k
NullKeyIds == { l \in LeftIds : tables[A].rows[l].k = None }

\* C20 (SpecSelect): a row that SELECT k, v FROM a WHERE <left> <op> <right>
\* keeps has no NULL operand in the comparison, for each of =, !=, <>, <, >,
\* <=, >=; a row of a JOIN b ON a.k <op> b.k has no NULL a.k or b.k; and
\* SELECT k, COUNT(*) FROM a GROUP BY k has one row for all rows with a NULL k.
C20_NullComparisons ==
    /\ LastSelect(WhereStmts) =>
           \A i \in 1 .. Len(result.rows) :
               /\ OperandValue(result.stmt.where.left, result.rows[i]) # None
               /\ OperandValue(result.stmt.where.right, result.rows[i]) # None
    /\ LastSelect(JoinStmts("INNER")) =>
           \A i \in 1 .. Len(result.rows) :
               result.rows[i].ak # None /\ result.rows[i].bk # None
    /\ LastSelect({ GroupStmt }) =>
           LET IsNullGroup(row) == row.k = None
           IN  IF NullKeyIds = {} THEN Positions(IsNullGroup) = {}
               ELSE \E i \in 1 .. Len(result.rows) :
                       /\ Positions(IsNullGroup) = { i }
                       /\ result.rows[i]["COUNT(*)"] = Cardinality(NullKeyIds)

\* ---- C28
\* C28 (SpecSelect): the rows of a RIGHT JOIN b ON on are none when a has no
\* rows.
C28_RightJoinEmptyLeft ==
    LastSelect(JoinStmts("RIGHT")) /\ LeftIds = {} => result.rows = << >>

\* ---- C21
\* the sum of the values of column x in the rows ids of a
RECURSIVE SumOf(_, _)
SumOf(ids, x) ==
    IF ids = {} THEN 0
    ELSE LET l == CHOOSE l \in ids : TRUE
         IN  tables[A].rows[l][x] + SumOf(ids \ {l}, x)

\* what the aggregates over column x show for the group of the rows ids of a:
\* COUNT(*) the number of rows, COUNT(x) the number of non-NULL values, SUM
\* their sum (0 when there are none), AVG their sum divided by their number,
\* MIN and MAX the least and the greatest, and AVG, MIN and MAX NULL when
\* there are none
AggregatesOf(row, ids, x) ==
    LET given == { l \in ids : tables[A].rows[l][x] # None }
        values == { tables[A].rows[l][x] : l \in given }
        col == ColumnRef("", x, "")
        Of(name) == row[function_name(FunctionCall(name, << col >>))]
    IN  /\ row["COUNT(*)"] = Cardinality(ids)
        /\ Of("COUNT") = Cardinality(given)
        /\ Of("SUM") = SumOf(given, x)
        /\ IF given = {} THEN Of("AVG") = None /\ Of("MIN") = None /\ Of("MAX") = None
           ELSE /\ Of("AVG").num * Cardinality(given) = SumOf(given, x) * Of("AVG").den
                /\ Of("AVG").den > 0
                /\ Of("MIN") \in values /\ \A y \in values : Of("MIN") <= y
                /\ Of("MAX") \in values /\ \A y \in values : Of("MAX") >= y

\* C21 (SpecSelect): SELECT [g,] COUNT(*), COUNT(x), SUM(x), AVG(x), MIN(x),
\* MAX(x) FROM a [GROUP BY g] has one row for each value of g among the rows of
\* a, with the aggregates of the rows that have this value, and without GROUP
\* BY one row with the aggregates of all rows of a, also when a has no rows.
C21_Aggregates ==
    LastSelect(AggregateStmts) =>
        LET group_by == result.stmt.group_by
            x == result.stmt.columns[Len(result.stmt.columns)].args[1].column
        IN  IF group_by = << >>
            THEN /\ Len(result.rows) = 1
                 /\ AggregatesOf(result.rows[1], LeftIds, x)
            ELSE LET g == group_by[1].column
                     keys == { tables[A].rows[l][g] : l \in LeftIds }
                 IN  /\ Len(result.rows) = Cardinality(keys)
                     /\ \A key \in keys :
                           \E i \in 1 .. Len(result.rows) :
                               /\ result.rows[i][g] = key
                               /\ AggregatesOf(result.rows[i],
                                               { l \in LeftIds : tables[A].rows[l][g] = key },
                                               x)

\* aggregates have just been computed over all rows of a, one with a NULL and
\* one with a non-NULL k
C21_Witness ==
    /\ LastSelect({ AggregateStmt(<< >>, col_k) })
    /\ Cardinality(LeftIds) = 2
    /\ \E l \in LeftIds : tables[A].rows[l].k = None
    /\ \E l \in LeftIds : tables[A].rows[l].k # None

\* ---- C22
\* the last statement was an UPDATE of SpecUpdate that completed
LastUpdate == result.op = "update" /\ "stmt" \in DOMAIN result /\ ~ result.raised

\* the rows that satisfied WHERE left = v before the statement
SatisfiedBefore(where) ==
    { rid \in DOMAIN result.before :
        where.kind = "none"
        \/ (result.before[rid][where.left.column] # None
            /\ result.before[rid][where.left.column] = where.right.value) }

\* the value of a right-hand side on a row as it was before the statement
OldValue(expr, old_row) == IF expr.kind = "lit" THEN expr.value ELSE old_row[expr.column]

\* the row after SET assignments, every right-hand side taken on old_row; of
\* two assignments to a column the later one counts
Assigned(assignments, old_row) ==
    [ col \in DOMAIN old_row |->
        IF \E i \in 1 .. Len(assignments) : assignments[i][1] = col
        THEN LET i == CHOOSE i \in 1 .. Len(assignments) :
                          /\ assignments[i][1] = col
                          /\ \A j \in 1 .. Len(assignments) : assignments[j][1] = col => j <= i
             IN  OldValue(assignments[i][2], old_row)
        ELSE old_row[col] ]

\* C22 (SpecUpdate): after an UPDATE that completes, each row that satisfied
\* the WHERE before the statement holds, in every assigned column, the value
\* its right-hand side had on that row before the statement (SET id = c,
\* c = id swaps the two), every other row is as it was, and affected_rows is
\* the number of rows that satisfied the WHERE before the statement.
C22_OldRowValues ==
    LastUpdate =>
        /\ tables[T].rows =
               [ rid \in DOMAIN result.before |->
                   IF rid \in SatisfiedBefore(result.stmt.where)
                   THEN Assigned(result.stmt.assignments, result.before[rid])
                   ELSE result.before[rid] ]
        /\ result.affected = Cardinality(SatisfiedBefore(result.stmt.where))

\* SET id = c, c = id has just swapped the two different values of a row
C22_Witness ==
    /\ LastUpdate
    /\ result.stmt.assignments = << << "id", Col("c") >>, << "c", Col("id") >> >>
    /\ \E rid \in DOMAIN result.before :
          /\ result.before[rid].id # result.before[rid].c
          /\ tables[T].rows[rid].id = result.before[rid].c
          /\ tables[T].rows[rid].c = result.before[rid].id

\* ---- C23
\* the keys in the subtree of a node
RECURSIVE SubtreeKeys(_, _)
SubtreeKeys(idx, node_id) ==
    LET node == idx.nodes[node_id]
    IN  SeqToSet(node.keys)
        \cup UNION { SubtreeKeys(idx, node.children[c]) : c \in 1 .. Len(node.children) }

\* the depths at which the leaves of the subtree of a node at depth d lie
RECURSIVE LeafDepths(_, _, _)
LeafDepths(idx, node_id, d) ==
    LET node == idx.nodes[node_id]
    IN  IF node.is_leaf THEN { d }
        ELSE UNION { LeafDepths(idx, node.children[c], d + 1) : c \in 1 .. Len(node.children) }

NodeWellFormed(idx, node_id) ==
    LET node == idx.nodes[node_id]
        n == Len(node.keys)
    IN  /\ n <= 2 * idx.order - 1
        /\ node_id # idx.root_id => n >= idx.order - 1
        /\ Len(node.values) = n
        /\ \A i \in 1 .. n - 1 : node.keys[i] < node.keys[i + 1]
        /\ IF node.is_leaf THEN node.children = << >>
           ELSE /\ Len(node.children) = n + 1
                /\ \A c \in 1 .. n + 1 :
                      \A key \in SubtreeKeys(idx, node.children[c]) :
                          /\ c > 1 => node.keys[c - 1] < key
                          /\ c <= n => key < node.keys[c]

WellFormed(idx) ==
    /\ \A node_id \in DOMAIN idx.nodes : NodeWellFormed(idx, node_id)
    /\ \A key \in TreeKeys(idx) : Cardinality(KeySlots(idx, key)) = 1
    /\ Cardinality(LeafDepths(idx, idx.root_id, 1)) = 1
    /\ SubtreeKeys(idx, idx.root_id) = TreeKeys(idx)

\* C23 (SpecDeep): after any sequence of insert and delete calls the B-tree
\* of minimum degree t is well formed: a node has at most 2t-1 keys and, if
\* it is not the root, at least t-1; an internal node with k keys has k+1
\* children; the keys of a node are strictly ascending and separate the keys
\* of its children's subtrees; no key is in two places; values has one list
\* for each key; all leaves are at the same depth.
C23_WellFormed == WellFormed(tree)

\* a tree of three levels from which a delete has just removed a row id
C23_Witness ==
    /\ Depth(tree, tree.root_id) = 3
    /\ last.op = "delete" /\ last.other

\* ---- C24
\* search(key) as a set, and search(key) has no row id twice
Found(idx, key) == SeqToSet(BTreeIndex_search(idx, key))
NoDuplicates(idx, key) ==
    Cardinality(Found(idx, key)) = Len(BTreeIndex_search(idx, key))

\* what search finds for every key
FoundMap(idx) == [k \in 1 .. MaxKey |-> BTreeIndex_search(idx, k)]

\* the lists found hold the row ids of the map m, none of them twice, where
\* the row ids of key are row_ids
MapsLike(found, m, key, row_ids) ==
    \A k \in 1 .. MaxKey :
        /\ SeqToSet(found[k]) = IF k = key THEN row_ids ELSE m[k]
        /\ Cardinality(SeqToSet(found[k])) = Len(found[k])

\* C24 (SpecBTree): a non-unique BTreeIndex is a map from key to a set of row
\* ids. A new index finds nothing; in every reachable index, search finds no
\* row id twice, insert(key, r) does not raise and adds r to what search(key)
\* finds, delete(key, r) removes r from it and returns whether r was there,
\* and what search finds for every other key stays. So search(key) finds the
\* row ids inserted under key and not deleted since, and nothing for a key
\* never inserted or fully deleted.
C24_MapOfSets ==
    ~ tree.unique =>
        /\ \A k \in 1 .. MaxKey : BTreeIndex_search(NewBTreeIndex("idx", FALSE, BTreeOrder), k) = << >>
        /\ \A k \in 1 .. MaxKey : NoDuplicates(tree, k)
        /\ \E m \in { [k \in 1 .. MaxKey |-> Found(tree, k)] } :
              \A key \in 1 .. MaxKey, r \in 1 .. MaxRid :
                  /\ \E ins \in { BTreeIndex_insert(tree, key, r) } :
                        /\ ~ ins.raised
                        /\ \E found \in { FoundMap(ins.idx) } :
                              MapsLike(found, m, key, m[key] \cup { r })
                  /\ \E del \in { BTreeIndex_delete(tree, key, r) } :
                        /\ del.result = (r \in m[key])
                        /\ \E found \in { FoundMap(del.idx) } :
                              MapsLike(found, m, key, m[key] \ { r })

\* a non-unique index of two levels from which a delete has just removed a row
\* id: one key holds two row ids, another one was fully deleted
C24_Witness ==
    /\ ~ tree.unique
    /\ Depth(tree, tree.root_id) = 2
    /\ last.op = "delete" /\ last.other
    /\ \E k1, k2 \in TreeKeys(tree) :
          /\ Found(tree, k1) = 1 .. MaxRid
          /\ Found(tree, k2) = {}

\* ---- C25
\* the bounds a range search is given: a key or NULL
RangeBounds == { None } \cup (1 .. MaxDeepKey)

\* the key lies in the interval
InInterval(key, min_key, max_key, include_min, include_max) ==
    /\ min_key # None => IF include_min THEN key >= min_key ELSE key > min_key
    /\ max_key # None => IF include_max THEN key <= max_key ELSE key < max_key

\* C25 (SpecRange): range_search(min, max, include_min, include_max) returns a
\* list that holds exactly the (key, row id) pairs of the index whose key lies
\* in the interval, each pair once, in ascending key order, in trees of one,
\* two and three levels; a NULL bound is no bound.
C25_RangeSearch ==
    \E pairs \in { TreePairs(tree) } :
        \A min_key, max_key \in RangeBounds, include_min, include_max \in BOOLEAN :
            \E found \in { BTreeIndex_range_search(tree, min_key, max_key,
                                                   include_min, include_max) } :
                /\ SeqToSet(found) =
                      { pr \in pairs : InInterval(pr[1], min_key, max_key,
                                                 include_min, include_max) }
                /\ Cardinality(SeqToSet(found)) = Len(found)
                /\ \A i \in 1 .. Len(found) - 1 : found[i][1] <= found[i + 1][1]

\* a tree of three levels in which key 2 has lost its row id, searched over
\* the interval (1, 8): the keys 3 .. 7 are found
C25_Witness ==
    /\ Depth(tree, tree.root_id) = 3
    /\ 2 \in TreeKeys(tree) /\ KeyRowIds(tree, 2) = {}
    /\ BTreeIndex_range_search(tree, 1, 8, FALSE, FALSE) =
          << << 3, 1 >>, << 4, 1 >>, << 5, 1 >>, << 6, 1 >>, << 7, 1 >> >>

\* ---- C29
\* the keys under which the index holds row id rid
EntriesOf(idx, rid) == { key \in TreeKeys(idx) : rid \in KeyRowIds(idx, key) }

\* C29 (SpecUpdate): when an UPDATE raises, every row that is stored as it was
\* before the statement, the row at which it raised among them, has the index
\* entries it had before: each index holds the row's old pair and no other
\* pair of that row.
C29_FailedUpdateKeepsEntries ==
    [][ (result'.op = "update" /\ result'.raised) =>
          \A rid \in DOMAIN Rows :
              (rid \in DOMAIN tables'[T].rows /\ tables'[T].rows[rid] = Rows[rid]) =>
                  \A i \in 1 .. Len(TableIndexes) :
                      EntriesOf(indexes'[T][i], rid) = EntriesOf(TableIndexes[i], rid) ]_vars

\* ---- C30
\* table t has an index on the column
IndexedColumn(column) ==
    \E i \in 1 .. Len(TableIndexes) : TableIndexes[i].column = Lower(column)

\* C30 (Spec): a CREATE INDEX on column c of the existing table t, which has no
\* index on c, raises only when it is UNIQUE and rows repeat a value of c; it
\* then leaves the IndexManager map, the index metadata and the index files
\* as they were before the statement.
C30_FailedCreateLeavesNothing ==
    [][ ( /\ result'.op = "create_index" /\ result'.raised
          /\ T \in DOMAIN tables /\ ~ IndexedColumn("c") ) =>
            UNCHANGED << indexes, index_meta, index_files >> ]_vars

\* ---- C26
\* C26 (SpecIndex): right after a CREATE INDEX on column c of t that did not
\* raise, with the column written c or C in the statement, the index on c
\* holds exactly the pairs (row[c], row id) of the stored rows whose c is not
\* NULL.
C26_NewIndexHoldsRows ==
    (result.op = "create_index" /\ ~ result.raised) =>
        \A i \in 1 .. Len(TableIndexes) :
            TableIndexes[i].column = "c" =>
                HoldsExactly(TableIndexes[i], RowPairs(TableIndexes[i].column))

\* ---- C27
\* C27 (SpecRows): after any sequence of INSERT and UPDATE on t, every stored
\* row has the schema's column names as its keys, holds no NULL in a NOT NULL
\* or PRIMARY KEY column and none in a column that has a default, and holds
\* in a VARCHAR(n) column a string of at most n letters.
C27_RowsFitSchema ==
    \A rid \in DOMAIN Rows : \A i \in 1 .. Len(catalog[T].columns) :
        \E col \in { catalog[T].columns[i] } :
            /\ DOMAIN Rows[rid] = SeqToSet(get_column_names(catalog[T]))
            /\ col.not_null => Rows[rid][col.name] # None
            /\ col.default # None => Rows[rid][col.name] # None
            /\ (col.col_type.dtype = "VARCHAR" /\ Rows[rid][col.name] # None) =>
                  len(Rows[rid][col.name]) <= col.col_type.size

====
